---- MODULE Spec2Model ----
(***************************************************************************)
(* Model of the mortgage tools of the real-estate chat assistant:          *)
(*   MortgageCalculation            (models/index.js, src/unnamed/part_000)*)
(*   MCPToolManager.calculateMortgage / calculateMortgageAdvanced          *)
(*                                  (src/src/mcp/tools.js)                 *)
(*   AIService.calculateMortgage    (src/services/aiService.js)            *)
(* and of what surrounds them:                                             *)
(*   AIService.processMessage       (src/services/aiService.js)            *)
(*   the socket server              (src/src/server.js)                    *)
(*   the web client chatApp()       (src/public/index.html)                *)
(*                                                                         *)
(* Units.  A JavaScript money value of v currency units is the integer     *)
(* 100 * v (cents); Math.round(x * 100) / 100 is therefore RoundHalfUp of  *)
(* the unrounded value in cents.  A percentage of p percent is the integer *)
(* 100 * p (basis points).  downPaymentPercent, reported with two          *)
(* decimals, is kept in hundredths of a percent.                           *)
(*                                                                         *)
(* Arithmetic.  The JavaScript code computes with IEEE doubles; the model  *)
(* computes the same expressions exactly, on rationals whose numerators    *)
(* and denominators are arbitrary-precision naturals (sequences of         *)
(* base-1000 limbs, least significant first).  The two agree on every      *)
(* input the model enumerates: no enumerated input puts an unrounded value *)
(* on a rounding tie that the double computation would miss.               *)
(***************************************************************************)
EXTENDS Integers, Sequences, FiniteSets, TLC

(***************************************************************************)
(* Bounds of the model.                                                    *)
(***************************************************************************)
MaxRate == 2          \* largest annual interest rate enumerated, in percent
MaxTermYears == 3     \* largest loan term enumerated, in years

(***************************************************************************)
(* The arguments the callers of the model pass, as numbers: money in       *)
(* cents, rates in basis points, terms in years.  They include a loan      *)
(* amount of zero and below (a down payment of the price and above), a     *)
(* negative rate, and a term of zero and below.                            *)
(***************************************************************************)
PropertyPrices == {100, 10000}

DownPayments == {7, 20, 90, 100, 1999, 2000}

InterestRates == {100 * k : k \in (-1)..MaxRate}

LoanTerms == (-1)..MaxTermYears

PmiRates == {0, 50}

(***************************************************************************)
(* Arbitrary-precision naturals: the values of the JavaScript Number       *)
(* expressions of MortgageCalculation.calculate.  Strict binds a value     *)
(* once, so that no operand is computed again at each of its uses.         *)
(***************************************************************************)
BigBase == 1000

Strict(v, Body(_)) == CHOOSE out \in {Body(w) : w \in {v}} : TRUE

MaxOf(u, v) == IF u >= v THEN u ELSE v

MinOf(u, v) == IF u <= v THEN u ELSE v

AbsOf(u) == IF u < 0 THEN 0 - u ELSE u

Limb(a, i) == IF i <= Len(a) THEN a[i] ELSE 0

\* the index of the most significant non-zero limb among the first k
RECURSIVE Strip(_, _)
Strip(a, k) ==
  IF k = 0 THEN 0 ELSE IF a[k] # 0 THEN k ELSE Strict(k - 1, LAMBDA j : Strip(a, j))

BigNorm(a0) ==
  Strict(a0, LAMBDA a : Strict(Len(a), LAMBDA k : SubSeq(a, 1, Strip(a, k))))

BigOf(n0) ==
  Strict(n0, LAMBDA n :
    BigNorm(<<n % BigBase, (n \div BigBase) % BigBase,
              (n \div (BigBase * BigBase)) % BigBase,
              n \div (BigBase * BigBase * BigBase)>>))

\* limbs lo..hi of t brought below BigBase, with the carry in and out
RECURSIVE CarryScan(_, _, _, _)
CarryScan(t, lo, hi, cin) ==
  IF lo > hi THEN [s |-> <<>>, c |-> cin]
  ELSE IF lo = hi
       THEN Strict(t[lo] + cin, LAMBDA v :
              [s |-> <<v % BigBase>>, c |-> v \div BigBase])
  ELSE Strict((lo + hi) \div 2, LAMBDA mid :
         Strict(CarryScan(t, lo, mid, cin), LAMBDA l :
           Strict(l.c, LAMBDA lc :
             Strict(CarryScan(t, mid + 1, hi, lc), LAMBDA r :
               [s |-> l.s \o r.s, c |-> r.c]))))

BigCarry(t0) ==
  Strict(t0, LAMBDA t :
    Strict(Len(t), LAMBDA hi :
      Strict(CarryScan(t, 1, hi, 0), LAMBDA r : BigNorm(r.s \o BigOf(r.c)))))

BigAdd(a0, b0) ==
  Strict(a0, LAMBDA a : Strict(b0, LAMBDA b :
    BigCarry([i \in 1..MaxOf(Len(a), Len(b)) |-> Limb(a, i) + Limb(b, i)])))

\* a - b for a >= b
BigSub(a0, b0) ==
  Strict(a0, LAMBDA a : Strict(b0, LAMBDA b :
    BigCarry([i \in 1..MaxOf(Len(a), Len(b)) |-> Limb(a, i) - Limb(b, i)])))

\* a * m for a machine integer 0 <= m <= 2000000
BigMulSmall(a0, m0) ==
  Strict(a0, LAMBDA a : Strict(m0, LAMBDA m :
    BigCarry([i \in 1..Len(a) |-> a[i] * m])))

RECURSIVE ColSum(_, _, _, _, _)
ColSum(a, b, k, lo, hi) ==
  IF lo > hi THEN 0
  ELSE IF lo = hi THEN a[lo] * b[k + 1 - lo]
  ELSE Strict((lo + hi) \div 2, LAMBDA mid :
         ColSum(a, b, k, lo, mid) + ColSum(a, b, k, mid + 1, hi))

BigMul(a0, b0) ==
  Strict(a0, LAMBDA a : Strict(b0, LAMBDA b :
    IF Len(a) = 0 \/ Len(b) = 0 THEN <<>>
    ELSE BigCarry([k \in 1..(Len(a) + Len(b) - 1) |->
                    Strict(MaxOf(1, k + 1 - Len(b)), LAMBDA lo :
                      Strict(MinOf(Len(a), k), LAMBDA hi : ColSum(a, b, k, lo, hi)))])))

\* the most significant limb in lo..hi where a and b differ, or 0
RECURSIVE HighDiff(_, _, _, _)
HighDiff(a, b, lo, hi) ==
  IF lo > hi THEN 0
  ELSE IF lo = hi THEN (IF a[lo] # b[lo] THEN lo ELSE 0)
  ELSE Strict((lo + hi) \div 2, LAMBDA mid :
         Strict(HighDiff(a, b, mid + 1, hi), LAMBDA up :
           IF up # 0 THEN up ELSE HighDiff(a, b, lo, mid)))

BigLeq(a0, b0) ==
  Strict(a0, LAMBDA a : Strict(b0, LAMBDA b :
    IF Len(a) # Len(b) THEN Len(a) < Len(b)
    ELSE Strict(Len(a), LAMBDA hi :
           Strict(HighDiff(a, b, 1, hi), LAMBDA d : d = 0 \/ a[d] < b[d]))))

\* b ^ n for a machine integer 0 < b < 2000000 and n >= 0 (Math.pow)
RECURSIVE BigPow(_, _)
BigPow(b, n) ==
  IF n = 0 THEN <<1>>
  ELSE Strict(n \div 2, LAMBDA half : Strict(BigPow(b, half), LAMBDA h :
         IF n % 2 = 1 THEN BigMulSmall(BigMul(h, h), b) ELSE BigMul(h, h)))

\* floor(a / m) for a machine integer 0 < m < 1000000, as a machine integer
RECURSIVE DivSmall(_, _, _, _, _)
DivSmall(a, m, i, rem, q) ==
  IF i = 0 THEN q
  ELSE Strict(rem * BigBase + a[i], LAMBDA cur :
         Strict(q * BigBase + cur \div m, LAMBDA q1 :
           Strict(i - 1, LAMBDA j :
             Strict(cur % m, LAMBDA rem1 : DivSmall(a, m, j, rem1, q1)))))

BigDivSmall(a0, m0) ==
  Strict(a0, LAMBDA a : Strict(m0, LAMBDA m :
    Strict(Len(a), LAMBDA i : DivSmall(a, m, i, 0, 0))))

\* the largest q in lo..hi with q * b <= a, by bisection
RECURSIVE DivSearch(_, _, _, _)
DivSearch(a, b, lo, hi) ==
  IF lo >= hi THEN lo
  ELSE Strict(lo + (hi - lo + 1) \div 2, LAMBDA mid :
         Strict(BigLeq(BigMul(b, BigOf(mid)), a), LAMBDA fits :
           IF fits THEN DivSearch(a, b, mid, hi)
           ELSE Strict(mid - 1, LAMBDA below : DivSearch(a, b, lo, below))))

(***************************************************************************)
(* floor(a / b) for b > 0 and a quotient that is a machine integer.  With  *)
(* bs the two leading limbs of b and as the limbs of a above the ones      *)
(* dropped from b, the quotient lies in floor(as / (bs + 1)) ..            *)
(* floor((as + 1) / bs), and bisection finds it there.                     *)
(***************************************************************************)
BigDivFloor(a0, b0) ==
  Strict(a0, LAMBDA a : Strict(b0, LAMBDA b :
    IF Len(b) <= 2 THEN BigDivSmall(a, Limb(b, 1) + BigBase * Limb(b, 2))
    ELSE Strict(b[Len(b) - 1] + BigBase * b[Len(b)], LAMBDA bs :
           Strict(SubSeq(a, Len(b) - 1, Len(a)), LAMBDA as :
             Strict(BigDivSmall(as, bs + 1), LAMBDA lo :
               Strict(BigDivSmall(BigAdd(as, <<1>>), bs), LAMBDA hi :
                 DivSearch(a, b, lo, hi)))))))

RECURSIVE Gcd(_, _)
Gcd(u, v) == IF v = 0 THEN u ELSE Strict(u % v, LAMBDA w : Gcd(v, w))

(***************************************************************************)
(* Signed rationals [neg, num, den]: the value is (-1)^neg * num / den,    *)
(* with num and den naturals as above and den > 0.                         *)
(***************************************************************************)
Rat(neg, num0, den) ==
  Strict(num0, LAMBDA num : [neg |-> neg /\ Len(num) > 0, num |-> num, den |-> den])

\* r * i for a machine integer i
RatMulInt(r0, i0) ==
  Strict(r0, LAMBDA r : Strict(i0, LAMBDA i :
    Rat(r.neg # (i < 0), BigMul(r.num, BigOf(AbsOf(i))), r.den)))

\* r - i for a machine integer i
RatSubInt(r0, i0) ==
  Strict(r0, LAMBDA r : Strict(i0, LAMBDA i :
    Strict(BigMul(r.den, BigOf(AbsOf(i))), LAMBDA sub :
      IF r.neg = (i > 0)
      THEN Rat(r.neg, BigAdd(r.num, sub), r.den)
      ELSE IF BigLeq(sub, r.num)
           THEN Rat(r.neg, BigSub(r.num, sub), r.den)
           ELSE Rat(i > 0, BigSub(sub, r.num), r.den))))

\* Math.floor instead of Math.round: the cents are cut off
RoundDownwards(r0) ==
  Strict(r0, LAMBDA r :
    IF r.neg
    THEN 0 - BigDivFloor(BigSub(BigAdd(r.num, r.den), <<1>>), r.den)
    ELSE BigDivFloor(r.num, r.den))

\* Math.round: the nearest integer, a tie going towards +infinity
RoundHalfUp(r0) ==
  Strict(r0, LAMBDA r :
    IF r.neg
    THEN 0 - BigDivFloor(BigSub(BigAdd(BigMulSmall(r.num, 2), r.den), <<1>>),
                         BigMulSmall(r.den, 2))
    ELSE BigDivFloor(BigAdd(BigMulSmall(r.num, 2), r.den), BigMulSmall(r.den, 2)))

\* Math.round of the machine-integer quotient num / den, den > 0
RoundHalfUpInt(num, den) == (2 * num + den) \div (2 * den)

(***************************************************************************)
(* JavaScript values of the tool arguments: a number, or a value whose     *)
(* use in an arithmetic expression throws a TypeError (a Symbol).          *)
(***************************************************************************)
Num(v) == [type |-> "number", v |-> v]

NonNumeric == [type |-> "symbol", v |-> 0]

IsNumber(x) == x.type = "number"

\* the argument of a call made without one: destructuring it throws a TypeError
Undefined == [undefined |-> TRUE]

IsObject(params) == "undefined" \notin DOMAIN params

\* interestRate / 100 / 12 with interestRate in basis points
MonthlyRateDen == 100 * 100 * 12

\* the example of the specification: 5,000,000 at 8.75 percent over 20 years
ExampleParams ==
  [propertyPrice |-> Num(500000000), downPayment |-> Num(0),
   interestRate |-> Num(875), loanTermYears |-> Num(20)]

\* the factor without Math.pow in its numerator
AmortizationFactorNoGrowth(interestRate, numPayments) ==
  Strict(Gcd(MonthlyRateDen + interestRate, MonthlyRateDen), LAMBDA g :
    Strict(BigPow((MonthlyRateDen + interestRate) \div g, AbsOf(numPayments)), LAMBDA up :
      Strict(BigPow(MonthlyRateDen \div g, AbsOf(numPayments)), LAMBDA dn :
        Rat(numPayments < 0, BigMulSmall(dn, interestRate),
            BigMulSmall(BigSub(up, dn), MonthlyRateDen)))))

\* the factor with 1 added to Math.pow in its denominator instead of subtracted
AmortizationFactorPlusOne(interestRate, numPayments) ==
  Strict(Gcd(MonthlyRateDen + interestRate, MonthlyRateDen), LAMBDA g :
    Strict(BigPow((MonthlyRateDen + interestRate) \div g, AbsOf(numPayments)), LAMBDA up :
      Strict(BigPow(MonthlyRateDen \div g, AbsOf(numPayments)), LAMBDA dn :
        Rat(FALSE, BigMulSmall(IF numPayments > 0 THEN up ELSE dn, interestRate),
            BigMulSmall(BigAdd(up, dn), MonthlyRateDen)))))

(***************************************************************************)
(* monthlyRate * Math.pow(1 + monthlyRate, numPayments)                    *)
(*   / (Math.pow(1 + monthlyRate, numPayments) - 1)    for monthlyRate > 0 *)
(* With up / dn the reduced fraction of (1 + monthlyRate) ^ |numPayments|, *)
(* the value is rate * up / (120000 * (up - dn)) for numPayments > 0 and   *)
(* - rate * dn / (120000 * (up - dn)) for numPayments < 0.                 *)
(***************************************************************************)
AmortizationFactor(interestRate, numPayments) ==
  Strict(Gcd(MonthlyRateDen + interestRate, MonthlyRateDen), LAMBDA g :
    Strict(BigPow((MonthlyRateDen + interestRate) \div g, AbsOf(numPayments)), LAMBDA up :
      Strict(BigPow(MonthlyRateDen \div g, AbsOf(numPayments)), LAMBDA dn :
        IF numPayments > 0
        THEN Rat(FALSE, BigMulSmall(up, interestRate),
                 BigMulSmall(BigSub(up, dn), MonthlyRateDen))
        ELSE Rat(TRUE, BigMulSmall(dn, interestRate),
                 BigMulSmall(BigSub(up, dn), MonthlyRateDen)))))

\* this.loanTermYears = data.loanTermYears || 30
TermOrDefault(loanTermYears) == IF loanTermYears # 0 THEN loanTermYears ELSE 30

\* AmortizationFactor, evaluated once for the rates and terms of the callers
FactorTable ==
  {<<r, n, AmortizationFactor(r, n)>> :
     r \in {i \in InterestRates : i > 0},
     n \in {12 * TermOrDefault(t) : t \in LoanTerms}}
  \cup {<<ExampleParams.interestRate.v, 12 * ExampleParams.loanTermYears.v,
          AmortizationFactor(ExampleParams.interestRate.v,
                             12 * ExampleParams.loanTermYears.v)>>}

Factor(interestRate, numPayments) ==
  IF \E e \in FactorTable : e[1] = interestRate /\ e[2] = numPayments
  THEN (CHOOSE e \in FactorTable : e[1] = interestRate /\ e[2] = numPayments)[3]
  ELSE AmortizationFactor(interestRate, numPayments)

\* the zero-rate branch dividing by the years of the term
UnroundedPaymentPerYear(loanAmount, interestRate, numPayments) ==
  IF interestRate > 0
  THEN RatMulInt(Factor(interestRate, numPayments), loanAmount)
  ELSE Rat((loanAmount < 0) # (numPayments < 0),
           BigOf(AbsOf(loanAmount)), BigOf(AbsOf(numPayments) \div 12))

\* the unrounded this.monthlyPayment of calculate(), in cents
UnroundedPayment(loanAmount, interestRate, numPayments) ==
  IF interestRate > 0
  THEN RatMulInt(Factor(interestRate, numPayments), loanAmount)
  ELSE Rat((loanAmount < 0) # (numPayments < 0),
           BigOf(AbsOf(loanAmount)), BigOf(AbsOf(numPayments)))

\* the loan amount taken the wrong way round
LoanAmountReversed(propertyPrice, downPayment) == downPayment - propertyPrice

\* this.loanAmount = data.propertyPrice - data.downPayment
LoanAmount(propertyPrice, downPayment) == propertyPrice - downPayment

\* the total interest with the loan amount added instead of subtracted
TotalInterestAdded(totalCost, loanAmount) == RatSubInt(totalCost, 0 - loanAmount)

\* the unrounded this.totalInterest = this.totalCost - this.loanAmount
TotalInterest(totalCost, loanAmount) == RatSubInt(totalCost, loanAmount)

(***************************************************************************)
(* MortgageCalculation.calculate() followed by toJSON(), for numbers.      *)
(* 0.012 / 12 is 1 / 1000 and 0.004 / 12 is 1 / 3000.                      *)
(***************************************************************************)
Calculate(propertyPrice, downPayment, interestRate, loanTermYears) ==
  Strict(LoanAmount(propertyPrice, downPayment), LAMBDA loanAmount :
    Strict(UnroundedPayment(loanAmount, interestRate, loanTermYears * 12),
           LAMBDA monthlyPayment :
      Strict(RatMulInt(monthlyPayment, loanTermYears * 12), LAMBDA totalCost :
        Strict(TotalInterest(totalCost, loanAmount), LAMBDA totalInterest :
          Strict(RoundHalfUp(monthlyPayment), LAMBDA roundedPayment :
            [propertyPrice |-> propertyPrice,
             downPayment |-> downPayment,
             loanAmount |-> loanAmount,
             interestRate |-> interestRate,
             loanTermYears |-> loanTermYears,
             monthlyPayment |-> roundedPayment,
             totalInterest |-> RoundHalfUp(totalInterest),
             totalCost |-> RoundHalfUp(totalCost),
             paymentBreakdown |->
               [principalAndInterest |-> roundedPayment,
                estimatedTaxes |-> RoundHalfUpInt(propertyPrice, 1000),
                estimatedInsurance |-> RoundHalfUpInt(propertyPrice, 3000)]])))))

(***************************************************************************)
(* new MortgageCalculation(data) followed by toJSON(): the constructor     *)
(* with its call of calculate().  The result is [exception |-> "TypeError"]*)
(* when an arithmetic expression meets a non-number, and otherwise the     *)
(* object toJSON() returns, under the key json.                            *)
(***************************************************************************)
MortgageCalculation(data) ==
  IF ~IsNumber(data.propertyPrice) \/ ~IsNumber(data.downPayment)
     \/ ~IsNumber(data.interestRate) \/ ~IsNumber(data.loanTermYears)
  THEN [exception |-> "TypeError"]
  ELSE [exception |-> "none",
        json |-> Calculate(data.propertyPrice.v, data.downPayment.v,
                           data.interestRate.v, TermOrDefault(data.loanTermYears.v))]

\* the JavaScript values a caller passes for the four arguments of calculateMortgage
BasicParams ==
  [propertyPrice : {Num(v) : v \in PropertyPrices},
   downPayment : {Num(v) : v \in DownPayments} \cup {NonNumeric},
   interestRate : {Num(v) : v \in InterestRates} \cup {NonNumeric},
   loanTermYears : {Num(v) : v \in LoanTerms}]

\* MortgageCalculation, evaluated once for the arguments of the callers
MortgageTable ==
  {<<data, MortgageCalculation(data)>> : data \in BasicParams \cup {ExampleParams}}

NewMortgageCalculation(data) == (CHOOSE e \in MortgageTable : e[1] = data)[2]

(***************************************************************************)
(* MCPToolManager.calculateMortgage(params): how the returned promise      *)
(* settles, and the exception its catch block caught.  The parameter is    *)
(* destructured before the try block is entered.                           *)
(***************************************************************************)
\* calculateMortgage without its try / catch
calculateMortgageUncaught(params) ==
  IF ~IsObject(params)
  THEN [status |-> "rejected", value |-> [exception |-> "TypeError"], caught |-> "none"]
  ELSE Strict(NewMortgageCalculation(
                [propertyPrice |-> params.propertyPrice,
                 downPayment |-> params.downPayment,
                 interestRate |-> params.interestRate,
                 loanTermYears |-> params.loanTermYears]), LAMBDA calculation :
         IF calculation.exception = "none"
         THEN [status |-> "fulfilled", value |-> calculation.json, caught |-> "none"]
         ELSE [status |-> "rejected",
               value |-> [exception |-> calculation.exception], caught |-> "none"])

calculateMortgage(params) ==
  IF ~IsObject(params)
  THEN [status |-> "rejected", value |-> [exception |-> "TypeError"], caught |-> "none"]
  ELSE Strict(NewMortgageCalculation(
                [propertyPrice |-> params.propertyPrice,
                 downPayment |-> params.downPayment,
                 interestRate |-> params.interestRate,
                 loanTermYears |-> params.loanTermYears]), LAMBDA calculation :
         IF calculation.exception = "none"
         THEN [status |-> "fulfilled", value |-> calculation.json, caught |-> "none"]
         ELSE [status |-> "fulfilled",
               value |-> [error |-> "Failed to calculate mortgage: TypeError"],
               caught |-> calculation.exception])

\* the arguments of the basic calculation with the term left out
BasicArgumentsWithoutTerm(params) ==
  [propertyPrice |-> params.propertyPrice,
   downPayment |-> params.downPayment,
   interestRate |-> params.interestRate,
   loanTermYears |-> Num(0)]

\* the object calculateMortgageAdvanced passes to this.calculateMortgage
BasicArguments(params) ==
  [propertyPrice |-> params.propertyPrice,
   downPayment |-> params.downPayment,
   interestRate |-> params.interestRate,
   loanTermYears |-> params.loanTermYears]

\* the comparison with the threshold of 20 percent included
PmiAppliesAtTwenty(downPayment, propertyPrice) == downPayment * 100 <= 20 * propertyPrice

\* downPaymentPercent < 20, for downPaymentPercent = (downPayment / propertyPrice) * 100
PmiApplies(downPayment, propertyPrice) == downPayment * 100 < 20 * propertyPrice

\* the total without the insurance
TotalMonthlyPaymentUninsured(monthlyPayment, monthlyPmi, monthlyPropertyTax, monthlyInsurance) ==
  monthlyPayment + RoundHalfUpInt(monthlyPmi + monthlyPropertyTax, MonthlyRateDen)

(***************************************************************************)
(* Math.round(totalMonthlyPayment * 100) / 100 for totalMonthlyPayment =   *)
(* basicCalc.monthlyPayment + monthlyPmi + monthlyPropertyTax +            *)
(* monthlyInsurance: monthlyPayment is a whole number of cents already,    *)
(* the other three are the numerators over 100 * 100 * 12 of the unrounded *)
(* amounts.                                                                *)
(***************************************************************************)
TotalMonthlyPayment(monthlyPayment, monthlyPmi, monthlyPropertyTax, monthlyInsurance) ==
  monthlyPayment
  + RoundHalfUpInt(monthlyPmi + monthlyPropertyTax + monthlyInsurance, MonthlyRateDen)

(***************************************************************************)
(* MCPToolManager.calculateMortgageAdvanced(params) from its await to its  *)
(* return, with awaited the settlement of the calculateMortgage promise:   *)
(* how its own promise settles, and the exception its catch block caught.  *)
(***************************************************************************)
calculateMortgageAdvanced(params, awaited) ==
  IF awaited.status = "rejected"
  THEN [status |-> "fulfilled",
        value |-> [error |-> "Failed to calculate advanced mortgage: TypeError"],
        caught |-> awaited.value.exception]
  ELSE IF "error" \in DOMAIN awaited.value
  THEN [status |-> "fulfilled", value |-> awaited.value, caught |-> "none"]
  ELSE IF PmiApplies(params.downPayment.v, params.propertyPrice.v)
          /\ ~IsNumber(params.pmiRate)
  THEN [status |-> "fulfilled",
        value |-> [error |-> "Failed to calculate advanced mortgage: TypeError"],
        caught |-> "TypeError"]
  ELSE
    LET propertyPrice == params.propertyPrice.v
        downPayment == params.downPayment.v
        loanAmount == propertyPrice - downPayment
        \* numerators over 100 * 100 * 12 of the unrounded monthly amounts
        monthlyPmi == IF PmiApplies(downPayment, propertyPrice)
                      THEN loanAmount * params.pmiRate.v ELSE 0
        monthlyPropertyTax == propertyPrice * params.propertyTaxRate
        monthlyInsurance == propertyPrice * params.insuranceRate
    IN [status |-> "fulfilled",
        value |->
          [advancedDetails |->
             [downPaymentPercent |-> RoundHalfUpInt(downPayment * 100 * 100, propertyPrice),
              monthlyPmi |-> RoundHalfUpInt(monthlyPmi, MonthlyRateDen),
              monthlyPropertyTax |-> RoundHalfUpInt(monthlyPropertyTax, MonthlyRateDen),
              monthlyInsurance |-> RoundHalfUpInt(monthlyInsurance, MonthlyRateDen),
              totalMonthlyPayment |->
                TotalMonthlyPayment(awaited.value.monthlyPayment, monthlyPmi,
                                    monthlyPropertyTax, monthlyInsurance),
              pmiRequired |-> PmiApplies(downPayment, propertyPrice)]] @@ awaited.value,
        caught |-> "none"]

(***************************************************************************)
(* AIService.calculateMortgage(query), in whole currency units.  The       *)
(* amounts it returns are formatted: emi by toLocaleString('en-IN') (the   *)
(* digit groups, the most significant first), the totals in lakhs with one *)
(* decimal by toFixed(1) (kept in tenths of a lakh), eligibleIncome in     *)
(* thousands.                                                              *)
(***************************************************************************)
RECURSIVE HigherGroups(_)
HigherGroups(n) == IF n < 100 THEN <<n>> ELSE HigherGroups(n \div 100) \o <<n % 100>>

IndianGroups(n) == IF n < 1000 THEN <<n>> ELSE HigherGroups(n \div 1000) \o <<n % 1000>>

Lakhs(amount) == RoundHalfUpInt(amount * 10, 100000)

\* the total interest without the principal taken off
AIServiceCalculateMortgageGross(query) ==
  LET loanAmount == 5000000
      annualRate == 875
      tenureYears == 20
      tenureMonths == tenureYears * 12
  IN Strict(Factor(annualRate, tenureMonths), LAMBDA factor :
       Strict(RoundHalfUp(Rat(FALSE, BigMul(factor.num, BigOf(loanAmount)), factor.den)),
              LAMBDA emi :
         Strict(emi * tenureMonths, LAMBDA totalAmount :
           Strict(totalAmount, LAMBDA totalInterest :
             [loanAmount |-> Lakhs(loanAmount),
              emi |-> IndianGroups(emi),
              tenure |-> tenureYears,
              interestRate |-> annualRate,
              totalAmount |-> Lakhs(totalAmount),
              totalInterest |-> Lakhs(totalInterest),
              eligibleIncome |-> RoundHalfUpInt(emi * 3, 1000)]))))

AIServiceCalculateMortgage(query) ==
  LET loanAmount == 5000000
      annualRate == 875
      tenureYears == 20
      tenureMonths == tenureYears * 12
  IN Strict(Factor(annualRate, tenureMonths), LAMBDA factor :
       Strict(RoundHalfUp(Rat(FALSE, BigMul(factor.num, BigOf(loanAmount)), factor.den)),
              LAMBDA emi :
         Strict(emi * tenureMonths, LAMBDA totalAmount :
           Strict(totalAmount - loanAmount, LAMBDA totalInterest :
             [loanAmount |-> Lakhs(loanAmount),
              emi |-> IndianGroups(emi),
              tenure |-> tenureYears,
              interestRate |-> annualRate,
              totalAmount |-> Lakhs(totalAmount),
              totalInterest |-> Lakhs(totalInterest),
              eligibleIncome |-> RoundHalfUpInt(emi * 3, 1000)]))))

\* the queries the assistant passes on; calculateMortgage does not read them
Queries == {"calculate emi", "home loan for 50 lakhs"}

\* AIServiceCalculateMortgage, evaluated once for each query
AIServiceTable == {<<q, AIServiceCalculateMortgage(q)>> : q \in Queries}

(***************************************************************************)
(* State: one caller of the tools and its current call.                    *)
(***************************************************************************)
VARIABLES
  pc,        \* "idle", "await" (calculateMortgageAdvanced suspended at its await), "done"
  call,      \* the tool and the arguments of the current call
  pending,   \* the settlement of the awaited calculateMortgage promise
  outcome,   \* how the promise of the current call settled: [status, value]
  caught,    \* the exception a catch block of the current call caught, or "none"
  earlier,   \* the call the caller completed before the current one: [call, outcome]
  calls,     \* the activations of concurrent callers: slot -> [pc, call, basicCalc, outcome]
  connected, \* the sockets connected to the server
  rooms,     \* the sockets joined to each session room
  msgs,      \* the chat_message events received: [pc, sender, data, emitted]
  outbox,    \* the events the last step of the server emitted: [event, to, payload],
             \* and for a broadcast the room it was sent to
  ai,        \* AIService.processMessage: [pc, message, isRelevant, toolsToUse, toolResults,
             \* invoked, result]
  client,    \* chatApp() of the web client: [started, socketConnected, isTyping, sessionId,
             \* fetching, socket, usedSockets, usedSessions, sendBuffer]
  exec,      \* MCPToolManager.executeTool: [pc, toolName, params, invoked, settled, response]
  db         \* the tables of DatabaseManager and its operation in progress:
             \* [messages, sessions, properties, op]

\* the state of the single caller of the tools
toolVars == <<pc, call, pending, outcome, caught, earlier>>

\* the state of the concurrent callers of the tools
callVars == <<calls>>

\* the state of the socket server
chatVars == <<connected, rooms, msgs, outbox>>

\* the state of the assistant service
aiVars == <<ai>>

\* the state of the web client
clientVars == <<client>>

\* the state of the tool manager
execVars == <<exec>>

\* the state of the database manager
dbVars == <<db>>

\* what a step of the single caller leaves alone
exceptTools == <<callVars, chatVars, aiVars, clientVars, execVars, dbVars>>

\* what a step of the concurrent callers leaves alone
exceptCalls == <<toolVars, chatVars, aiVars, clientVars, execVars, dbVars>>

\* what a step of the socket server leaves alone
exceptChat == <<toolVars, callVars, aiVars, clientVars, execVars, dbVars>>

\* what a step of the assistant service leaves alone
exceptAI == <<toolVars, callVars, chatVars, clientVars, execVars, dbVars>>

\* what a step of the web client and of the server that serves it leaves alone
exceptClient == <<toolVars, callVars, aiVars, execVars, dbVars>>

\* what a step of the tool manager leaves alone
exceptExec == <<toolVars, callVars, chatVars, aiVars, clientVars, dbVars>>

\* what a step of the database manager leaves alone
exceptDb == <<toolVars, callVars, chatVars, aiVars, clientVars, execVars>>

vars == <<toolVars, callVars, chatVars, aiVars, clientVars, execVars, dbVars>>

NoValue == [none |-> TRUE]

NoCall == [tool |-> "none"]

NoOutcome == [status |-> "none", value |-> NoValue]

NoEarlier == [call |-> NoCall, outcome |-> NoOutcome]

\* propertyTaxRate and insuranceRate in basis points: the default values (1.2 and
\* 0.4 percent) and a value a caller passes
PropertyTaxRates == {120, 200}

InsuranceRates == {40, 100}

AdvancedParams ==
  [propertyPrice : {Num(v) : v \in PropertyPrices},
   downPayment : {Num(v) : v \in DownPayments} \cup {NonNumeric},
   interestRate : {Num(v) : v \in InterestRates} \cup {NonNumeric},
   loanTermYears : {Num(v) : v \in LoanTerms},
   pmiRate : {Num(v) : v \in PmiRates} \cup {NonNumeric},
   propertyTaxRate : PropertyTaxRates,
   insuranceRate : InsuranceRates]

\* the number of callers that may have a call in progress at once
MaxCalls == 2

Slots == 1..MaxCalls

\* an activation that has not been called: no arguments, no local basicCalc, no result
IdleActivation == [pc |-> "idle", call |-> NoCall, basicCalc |-> NoOutcome, outcome |-> NoOutcome]

\* the single caller is idle
InitTools ==
  /\ pc = "idle"
  /\ call = NoCall
  /\ pending = NoOutcome
  /\ outcome = NoOutcome
  /\ caught = "none"
  /\ earlier = NoEarlier

\* no concurrent caller has called
InitCalls == calls = [slot \in Slots |-> IdleActivation]

\* the number of chat_message events the server receives
MaxMessages == 1

Messages == 1..MaxMessages

\* two chat_message events, numbered in the order in which the server receives them
OrderedMessages == 1..2

\* the sockets that may connect, by socket.id
Sockets == {"socketA", "socketB"}

\* the session rooms sockets may join
SessionIds == {"session1", "session2"}

\* the sessionId of a client that has no session
NullSession == "null"

\* a chat_message event that has not been received
NoMessage == [pc |-> "none", sender |-> "none", data |-> NoValue, emitted |-> <<>>]

\* no socket is connected, no room has a member, no event has been received
InitChat ==
  /\ connected = {}
  /\ rooms = [id \in SessionIds |-> {}]
  /\ msgs = [m \in Messages \cup OrderedMessages |-> NoMessage]
  /\ outbox = {}

\* AIService.processMessage has not been called
IdleService ==
  [pc |-> "idle", service |-> "none", message |-> <<>>, isString |-> TRUE,
   sessionId |-> NullSession, isRelevant |-> NoValue, toolsToUse |-> <<>>,
   toolResults |-> {}, invoked |-> <<>>, failed |-> "none", result |-> NoValue]

InitAI == ai = IdleService

\* the object chatApp() returns; socket is the socket.id the server knows the connection by
NewChatApp ==
  [started |-> FALSE, socketConnected |-> FALSE, isTyping |-> FALSE,
   sessionId |-> NullSession, fetching |-> FALSE, socket |-> "none",
   usedSockets |-> {}, usedSessions |-> {}, sendBuffer |-> {}]

InitClient == client = NewChatApp

\* executeTool has not been called
IdleExecution ==
  [pc |-> "idle", toolName |-> "none", params |-> "none", invoked |-> <<>>,
   settled |-> NoOutcome, response |-> NoValue]

InitExec == exec = IdleExecution

\* no operation of the database manager is in progress
IdleOperation ==
  [pc |-> "idle", name |-> "none", args |-> NoValue, read |-> {}, result |-> NoValue]

\* the tables are empty
InitDb ==
  db = [messages |-> {}, sessions |-> {}, properties |-> {}, op |-> IdleOperation]

Init ==
  /\ InitTools
  /\ InitCalls
  /\ InitChat
  /\ InitAI
  /\ InitClient
  /\ InitExec
  /\ InitDb

(***************************************************************************)
(* The caller calls calculateMortgage and the promise settles.  A caller   *)
(* holding the result of a calculateMortgage call may call again for the   *)
(* same property and down payment with another rate or another term, and   *)
(* then keeps the result it had.                                           *)
(***************************************************************************)
CalculateMortgage ==
  \E params \in BasicParams \cup {ExampleParams, Undefined} :
    /\ \/ pc = "idle"
       \/ /\ pc = "done"
          /\ call.tool = "calculateMortgage"
          /\ IsObject(call.params)
          /\ IsObject(params)
          /\ params.propertyPrice = call.params.propertyPrice
          /\ params.downPayment = call.params.downPayment
          /\ \/ params.interestRate = call.params.interestRate
             \/ params.loanTermYears = call.params.loanTermYears
    /\ \E settled \in {calculateMortgage(params)} :
          /\ outcome' = [status |-> settled.status, value |-> settled.value]
          /\ caught' = settled.caught
    /\ earlier' = IF pc = "done" THEN [call |-> call, outcome |-> outcome] ELSE NoEarlier
    /\ call' = [tool |-> "calculateMortgage", params |-> params]
    /\ pc' = "done"
    /\ UNCHANGED pending
    /\ UNCHANGED exceptTools

(***************************************************************************)
(* calculateMortgageAdvanced up to its await: it calls calculateMortgage   *)
(* and suspends.  Called without an argument it rejects at once.           *)
(***************************************************************************)
CalculateMortgageAdvancedCall ==
  \E params \in AdvancedParams \cup {Undefined} :
    /\ pc = "idle"
    /\ call' = [tool |-> "calculateMortgageAdvanced", params |-> params]
    /\ IF IsObject(params)
       THEN \E settled \in {calculateMortgage(BasicArguments(params))} :
              /\ pending' = [status |-> settled.status, value |-> settled.value]
              /\ caught' = settled.caught
              /\ pc' = "await"
              /\ UNCHANGED outcome
       ELSE /\ outcome' = [status |-> "rejected", value |-> [exception |-> "TypeError"]]
            /\ pc' = "done"
            /\ UNCHANGED <<pending, caught>>
    /\ UNCHANGED earlier
    /\ UNCHANGED exceptTools

\* calculateMortgageAdvanced from its await to its return
CalculateMortgageAdvancedResume ==
  /\ pc = "await"
  /\ \E settled \in {calculateMortgageAdvanced(call.params, pending)} :
        /\ outcome' = [status |-> settled.status, value |-> settled.value]
        /\ caught' = IF settled.caught # "none" THEN settled.caught ELSE caught
  /\ pending' = NoOutcome
  /\ pc' = "done"
  /\ UNCHANGED <<call, earlier>>
  /\ UNCHANGED exceptTools

\* the assistant calls AIService.calculateMortgage and the promise settles
AIServiceCalculateMortgageCall ==
  \E query \in Queries :
    /\ pc = "idle"
    /\ call' = [tool |-> "AIService.calculateMortgage", params |-> [query |-> query]]
    /\ outcome' = [status |-> "fulfilled",
                   value |-> (CHOOSE e \in AIServiceTable : e[1] = query)[2]]
    /\ pc' = "done"
    /\ UNCHANGED <<pending, caught, earlier>>
    /\ UNCHANGED exceptTools

\* the caller consumes the settlement and discards it
Consume ==
  /\ pc = "done"
  /\ pc' = "idle"
  /\ call' = NoCall
  /\ outcome' = NoOutcome
  /\ caught' = "none"
  /\ earlier' = NoEarlier
  /\ UNCHANGED pending
  /\ UNCHANGED exceptTools

Next ==
  \/ CalculateMortgage
  \/ CalculateMortgageAdvancedCall
  \/ CalculateMortgageAdvancedResume
  \/ AIServiceCalculateMortgageCall
  \/ Consume

Spec == Init /\ [][Next]_vars

(***************************************************************************)
(* Vocabulary of the properties below.                                     *)
(***************************************************************************)
NumericParams(params) ==
  /\ IsObject(params)
  /\ IsNumber(params.propertyPrice)
  /\ IsNumber(params.downPayment)
  /\ IsNumber(params.interestRate)
  /\ IsNumber(params.loanTermYears)

\* the loan principal of a call, in cents
Principal(params) == params.propertyPrice.v - params.downPayment.v

\* the number of monthly payments of a call with a positive term
Payments(params) == params.loanTermYears.v * 12

\* principal > 0, termYears > 0 and annualRatePercent >= 0
ValidInput(params) ==
  /\ NumericParams(params)
  /\ Principal(params) > 0
  /\ params.loanTermYears.v > 0
  /\ params.interestRate.v >= 0

\* a call of calculateMortgage has settled
BasicDone == pc = "done" /\ call.tool = "calculateMortgage"

\* a call of calculateMortgageAdvanced has settled
AdvancedDone == pc = "done" /\ call.tool = "calculateMortgageAdvanced"

\* a call of AIService.calculateMortgage has settled
AIServiceDone == pc = "done" /\ call.tool = "AIService.calculateMortgage"

\* the value is a result object with payment fields
HasPaymentFields(value) == "monthlyPayment" \in DOMAIN value

\* the value is the result object of calculateMortgageAdvanced
HasAdvancedDetails(value) == "advancedDetails" \in DOMAIN value

\* the down payment is strictly below 20 percent of the price
BelowTwentyPercent(params) ==
  params.downPayment.v * 100 < 20 * params.propertyPrice.v

\* the caller holds the result of an earlier calculateMortgage call on valid input
EarlierValid == earlier.call.tool = "calculateMortgage" /\ ValidInput(earlier.call.params)

(***************************************************************************)
(* C1.  The basic calculation rejects invalid input: whenever the loan     *)
(* principal is <= 0, or loanTermYears is <= 0, or interestRate is < 0,    *)
(* the call fails with an error and no result object with payment fields   *)
(* is produced.  The code does not do this: it validates nothing.          *)
(***************************************************************************)
C1_InvalidInputRejected ==
  (BasicDone /\ NumericParams(call.params) /\ ~ValidInput(call.params)) =>
    /\ outcome.status = "rejected" \/ "error" \in DOMAIN outcome.value
    /\ ~HasPaymentFields(outcome.value)

(***************************************************************************)
(* C2.  For every principal > 0 and termYears > 0 with a rate of 0, the    *)
(* basic calculation returns monthlyPayment equal to                       *)
(* principal / (termYears * 12) rounded to cents (the nearest cent, a tie  *)
(* going up), and totalInterest equal to 0.                                *)
(***************************************************************************)
C2_ZeroRatePayment ==
  (BasicDone /\ ValidInput(call.params) /\ call.params.interestRate.v = 0) =>
    /\ outcome.status = "fulfilled"
    /\ HasPaymentFields(outcome.value)
    /\ 2 * Payments(call.params) * outcome.value.monthlyPayment - Payments(call.params)
         <= 2 * Principal(call.params)
    /\ 2 * Principal(call.params)
         < 2 * Payments(call.params) * outcome.value.monthlyPayment + Payments(call.params)
    /\ outcome.value.totalInterest = 0

\* a zero-rate call whose payment is not a whole number of cents before rounding
C2_Witness ==
  /\ BasicDone
  /\ ValidInput(call.params)
  /\ call.params.interestRate.v = 0
  /\ Principal(call.params) % Payments(call.params) # 0
  /\ outcome.value.monthlyPayment > 0
  /\ outcome.value.totalInterest = 0

C4_AsStated ==
  (/\ AdvancedDone
   /\ HasAdvancedDetails(outcome.value)
   /\ ValidInput(call.params)
   /\ IsNumber(call.params.pmiRate)
   /\ call.params.pmiRate.v > 0) =>
    IF BelowTwentyPercent(call.params)
    THEN /\ outcome.value.advancedDetails.monthlyPmi > 0
         /\ outcome.value.advancedDetails.pmiRequired
    ELSE /\ outcome.value.advancedDetails.monthlyPmi = 0
         /\ ~outcome.value.advancedDetails.pmiRequired

(***************************************************************************)
(* C4, amended.  pmiRequired is true exactly when the down-payment         *)
(* percentage is strictly below 20.  At 20 percent or more monthlyPmi = 0. *)
(* Strictly below 20 percent monthlyPmi is (principal * pmiRate / 100) /   *)
(* 12 rounded to cents, which is 0 when that amount is below half a cent.  *)
(***************************************************************************)
C4_PmiThreshold ==
  (AdvancedDone /\ HasAdvancedDetails(outcome.value)) =>
    /\ outcome.value.advancedDetails.pmiRequired = BelowTwentyPercent(call.params)
    /\ ~BelowTwentyPercent(call.params) => outcome.value.advancedDetails.monthlyPmi = 0
    /\ BelowTwentyPercent(call.params) =>
         /\ 2 * MonthlyRateDen * outcome.value.advancedDetails.monthlyPmi - MonthlyRateDen
              <= 2 * Principal(call.params) * call.params.pmiRate.v
         /\ 2 * Principal(call.params) * call.params.pmiRate.v
              < 2 * MonthlyRateDen * outcome.value.advancedDetails.monthlyPmi + MonthlyRateDen

\* an advanced call below 20 percent that charges mortgage insurance
C4_Witness ==
  /\ AdvancedDone
  /\ HasAdvancedDetails(outcome.value)
  /\ BelowTwentyPercent(call.params)
  /\ outcome.value.advancedDetails.monthlyPmi > 0
  /\ outcome.value.advancedDetails.pmiRequired

(***************************************************************************)
(* C5, as the specification states it.  In every result of                 *)
(* calculateMortgageAdvanced, advancedDetails.totalMonthlyPayment equals   *)
(* monthlyPayment + monthlyPmi + monthlyPropertyTax + monthlyInsurance of  *)
(* the same result.  It fails on valid input already.                      *)
(***************************************************************************)
C5_AsStated ==
  (AdvancedDone /\ HasAdvancedDetails(outcome.value) /\ ValidInput(call.params)) =>
    outcome.value.advancedDetails.totalMonthlyPayment =
      outcome.value.monthlyPayment
      + outcome.value.advancedDetails.monthlyPmi
      + outcome.value.advancedDetails.monthlyPropertyTax
      + outcome.value.advancedDetails.monthlyInsurance

(***************************************************************************)
(* C5, amended.  totalMonthlyPayment is rounded from the sum of the        *)
(* rounded monthlyPayment and the unrounded insurance, tax and PMI         *)
(* amounts: it is within one cent of monthlyPayment + monthlyPmi +         *)
(* monthlyPropertyTax + monthlyInsurance of the same result.               *)
(***************************************************************************)
C5_TotalWithinOneCent ==
  (AdvancedDone /\ HasAdvancedDetails(outcome.value)) =>
    AbsOf(outcome.value.advancedDetails.totalMonthlyPayment
          - (outcome.value.monthlyPayment
             + outcome.value.advancedDetails.monthlyPmi
             + outcome.value.advancedDetails.monthlyPropertyTax
             + outcome.value.advancedDetails.monthlyInsurance)) <= 1

\* an advanced result whose total is not the sum of its rounded parts
C5_Witness ==
  /\ AdvancedDone
  /\ HasAdvancedDetails(outcome.value)
  /\ ValidInput(call.params)
  /\ outcome.value.advancedDetails.monthlyInsurance > 0
  /\ outcome.value.advancedDetails.totalMonthlyPayment #
       outcome.value.monthlyPayment
       + outcome.value.advancedDetails.monthlyPmi
       + outcome.value.advancedDetails.monthlyPropertyTax
       + outcome.value.advancedDetails.monthlyInsurance

(***************************************************************************)
(* C6, as the specification states it.  For a principal of 5,000,000 at    *)
(* 8.75 percent over 20 years the monthly payment rounded to the nearest   *)
(* whole currency unit is 43,929 and the total interest is 5,542,960.      *)
(***************************************************************************)
C6_AsStated ==
  /\ AIServiceDone =>
       /\ outcome.value.emi = IndianGroups(43929)
       /\ outcome.value.totalInterest = Lakhs(5542960)
  /\ (BasicDone /\ call.params = ExampleParams) =>
       /\ RoundHalfUpInt(outcome.value.monthlyPayment, 100) = 43929
       /\ RoundHalfUpInt(outcome.value.totalInterest, 100) = 5542960

(***************************************************************************)
(* C6, amended.  For a principal of 5,000,000 at 8.75 percent over 20      *)
(* years AIService.calculateMortgage computes a monthly payment of 44,186  *)
(* whole units, a total of 10,604,640 and a total interest of 5,604,640,   *)
(* and returns them as "44,186", 106.0 lakhs and 56.0 lakhs;               *)
(* calculateMortgage returns a monthly payment of 44,185.54 and a total    *)
(* interest of 5,604,528.51.                                               *)
(***************************************************************************)
C6_ExamplePayment ==
  /\ AIServiceDone =>
       /\ outcome.status = "fulfilled"
       /\ outcome.value.emi = <<44, 186>>
       /\ outcome.value.totalAmount = Lakhs(10604640)
       /\ outcome.value.totalInterest = Lakhs(5604640)
       /\ outcome.value.totalInterest = 560
  /\ (BasicDone /\ call.params = ExampleParams) =>
       /\ outcome.status = "fulfilled"
       /\ outcome.value.monthlyPayment = 4418554
       /\ outcome.value.totalInterest = 560452851

\* the assistant's calculation has returned the payment of the example
C6_Witness ==
  /\ AIServiceDone
  /\ outcome.value.emi = IndianGroups(44186)
  /\ outcome.value.tenure = 20

ConcurrentParams ==
  {params \in AdvancedParams :
     /\ params.propertyPrice = Num(10000)
     /\ params.downPayment \in {Num(1999), Num(2000)}
     /\ params.interestRate \in {Num(100), NonNumeric}
     /\ params.loanTermYears = Num(1)
     /\ params.pmiRate = Num(50)}

\* one basicCalc for all activations, holding what the lowest suspended one awaits
basicCalcOfLowestAwaiting(activations, slot) ==
  activations[CHOOSE low \in Slots :
                /\ activations[low].pc = "await"
                /\ \A other \in Slots : activations[other].pc = "await" => low <= other].basicCalc

\* one basicCalc for all activations, holding what the highest suspended one awaits
basicCalcOfHighestAwaiting(activations, slot) ==
  activations[CHOOSE high \in Slots :
                /\ activations[high].pc = "await"
                /\ \A other \in Slots : activations[other].pc = "await" => other <= high].basicCalc

\* const basicCalc of the activation in the slot: the settlement it awaited
basicCalc(activations, slot) == activations[slot].basicCalc

\* a caller calls calculateMortgage and the promise settles
ConcurrentCalculateMortgage(slot) ==
  \E params \in ConcurrentParams \cup {Undefined} :
    /\ calls[slot].pc = "idle"
    /\ \E settled \in {calculateMortgage(params)} :
         calls' = [calls EXCEPT ![slot] =
                     [pc |-> "done",
                      call |-> [tool |-> "calculateMortgage", params |-> params],
                      basicCalc |-> NoOutcome,
                      outcome |-> [status |-> settled.status, value |-> settled.value]]]
    /\ UNCHANGED exceptCalls

\* a caller calls calculateMortgageAdvanced, which runs up to its await
ConcurrentAdvancedCall(slot) ==
  \E params \in ConcurrentParams \cup {Undefined} :
    /\ calls[slot].pc = "idle"
    /\ IF IsObject(params)
       THEN \E settled \in {calculateMortgage(BasicArguments(params))} :
              calls' = [calls EXCEPT ![slot] =
                          [pc |-> "await",
                           call |-> [tool |-> "calculateMortgageAdvanced", params |-> params],
                           basicCalc |-> [status |-> settled.status, value |-> settled.value],
                           outcome |-> NoOutcome]]
       ELSE calls' = [calls EXCEPT ![slot] =
                        [pc |-> "done",
                         call |-> [tool |-> "calculateMortgageAdvanced", params |-> params],
                         basicCalc |-> NoOutcome,
                         outcome |-> [status |-> "rejected",
                                      value |-> [exception |-> "TypeError"]]]]
    /\ UNCHANGED exceptCalls

\* the event loop resumes a suspended calculateMortgageAdvanced, which runs to its return
ConcurrentAdvancedResume(slot) ==
  /\ calls[slot].pc = "await"
  /\ \E settled \in {calculateMortgageAdvanced(calls[slot].call.params,
                                               basicCalc(calls, slot))} :
       calls' = [calls EXCEPT ![slot] =
                   [pc |-> "done",
                    call |-> calls[slot].call,
                    basicCalc |-> NoOutcome,
                    outcome |-> [status |-> settled.status, value |-> settled.value]]]
  /\ UNCHANGED exceptCalls

\* a caller consumes the settlement of its call
ConcurrentConsume(slot) ==
  /\ calls[slot].pc = "done"
  /\ calls' = [calls EXCEPT ![slot] = IdleActivation]
  /\ UNCHANGED exceptCalls

NextCalls ==
  \/ \E slot \in Slots : ConcurrentCalculateMortgage(slot)
  \/ \E slot \in Slots : ConcurrentAdvancedCall(slot)
  \/ \E slot \in Slots : ConcurrentAdvancedResume(slot)
  \/ \E slot \in Slots : ConcurrentConsume(slot)

SpecCalls == Init /\ [][NextCalls]_vars

\* how the promise of a call settles when the call runs with no other call in progress
RunAlone(invocation) ==
  IF invocation.tool = "calculateMortgage"
  THEN Strict(calculateMortgage(invocation.params), LAMBDA settled :
         [status |-> settled.status, value |-> settled.value])
  ELSE IF ~IsObject(invocation.params)
  THEN [status |-> "rejected", value |-> [exception |-> "TypeError"]]
  ELSE Strict(calculateMortgage(invocation.params), LAMBDA awaited :
         Strict(calculateMortgageAdvanced(invocation.params, awaited), LAMBDA settled :
           [status |-> settled.status, value |-> settled.value]))

\* the activation in the slot has settled
SlotDone(slot) == calls[slot].pc = "done"

(***************************************************************************)
(* C11.  Calls of calculateMortgage and calculateMortgageAdvanced may be   *)
(* interleaved, at the await inside calculateMortgageAdvanced too, without *)
(* interaction: the result of every call is the result of running that     *)
(* call alone, and what a suspended call awaits is the basic calculation   *)
(* of its own arguments.                                                   *)
(***************************************************************************)
C11_CallsDoNotInteract ==
  \A slot \in Slots :
    /\ SlotDone(slot) => calls[slot].outcome = RunAlone(calls[slot].call)
    /\ calls[slot].pc = "await" =>
         Strict(calculateMortgage(calls[slot].call.params), LAMBDA settled :
           calls[slot].basicCalc = [status |-> settled.status, value |-> settled.value])

\* a calculateMortgageAdvanced call has settled that was suspended while a call with
\* other arguments was suspended or settled in between
C11_Witness ==
  \E slot \in Slots, other \in Slots :
    /\ slot # other
    /\ SlotDone(slot)
    /\ calls[slot].call.tool = "calculateMortgageAdvanced"
    /\ IsObject(calls[slot].call.params)
    /\ HasAdvancedDetails(calls[slot].outcome.value)
    /\ calls[other].pc \in {"await", "done"}
    /\ calls[other].call.tool = "calculateMortgageAdvanced"
    /\ IsObject(calls[other].call.params)
    /\ calls[other].call.params # calls[slot].call.params

(***************************************************************************)
(* C12.  Both calculation functions are idempotent: two calls of the same  *)
(* function with identical inputs yield identical results, whatever other  *)
(* calls started, were suspended or settled in between.                    *)
(***************************************************************************)
C12_IdenticalInputsIdenticalResults ==
  \A slot \in Slots, other \in Slots :
    (SlotDone(slot) /\ SlotDone(other) /\ calls[slot].call = calls[other].call) =>
      calls[slot].outcome = calls[other].outcome

\* two callers hold the results of calculateMortgageAdvanced calls with identical inputs
C12_Witness ==
  \E slot \in Slots, other \in Slots :
    /\ slot # other
    /\ SlotDone(slot)
    /\ SlotDone(other)
    /\ calls[slot].call = calls[other].call
    /\ calls[slot].call.tool = "calculateMortgageAdvanced"
    /\ HasAdvancedDetails(calls[slot].outcome.value)


\* Math.round(total * 100) / 100 for total the sum of the unrounded monthly payment and
\* of the unrounded PMI, property tax and insurance (numerators over 100 * 100 * 12)
TotalOfUnroundedOperands(params) ==
  Strict(UnroundedPayment(Principal(params), params.interestRate.v,
                          TermOrDefault(params.loanTermYears.v) * 12), LAMBDA payment :
    Strict(RatSubInt(RatMulInt(payment, MonthlyRateDen),
                     0 - ((IF BelowTwentyPercent(params)
                           THEN Principal(params) * params.pmiRate.v ELSE 0)
                          + params.propertyPrice.v * params.propertyTaxRate
                          + params.propertyPrice.v * params.insuranceRate)), LAMBDA total :
      RoundHalfUp(Rat(total.neg, total.num, BigMul(total.den, BigOf(MonthlyRateDen))))))

(***************************************************************************)
(* C13.  In calculateMortgageAdvanced every derived monetary value is      *)
(* rounded independently from unrounded operands: totalMonthlyPayment is   *)
(* the rounding of the sum of the unrounded monthly payment, the unrounded *)
(* PMI, property tax and insurance.  The code does not do this: it adds    *)
(* the already rounded basicCalc.monthlyPayment.                           *)
(***************************************************************************)
C13_TotalFromUnroundedOperands ==
  (AdvancedDone /\ ValidInput(call.params) /\ HasAdvancedDetails(outcome.value)) =>
    outcome.value.advancedDetails.totalMonthlyPayment = TotalOfUnroundedOperands(call.params)


\* k <= 2 * r for a machine integer k and a rational r
TwiceAtLeast(r0, k0) ==
  Strict(r0, LAMBDA r : Strict(k0, LAMBDA k :
    IF r.neg
    THEN k <= 0 /\ BigLeq(BigMulSmall(r.num, 2), BigMul(r.den, BigOf(0 - k)))
    ELSE k <= 0 \/ BigLeq(BigMul(r.den, BigOf(k)), BigMulSmall(r.num, 2))))

\* cents is the whole number of cents nearest to the amount r, the upper one of two
WholeCentsOf(cents, r) ==
  /\ cents \in Int
  /\ TwiceAtLeast(r, 2 * cents - 1)
  /\ ~TwiceAtLeast(r, 2 * cents + 1)

\* the same for the amount num / den of machine integers, den > 0
WholeCentsOfQuotient(cents, num, den) ==
  /\ cents \in Int
  /\ (2 * cents - 1) * den <= 2 * num
  /\ 2 * num < (2 * cents + 1) * den

\* the amounts of the basic calculation are whole cents of the unrounded amounts;
\* 0.012 / 12 is 1 / 1000 and 0.004 / 12 is 1 / 3000
BasicFieldsWholeCents(params, value) ==
  Strict(UnroundedPayment(Principal(params), params.interestRate.v,
                          TermOrDefault(params.loanTermYears.v) * 12), LAMBDA payment :
    Strict(RatMulInt(payment, TermOrDefault(params.loanTermYears.v) * 12), LAMBDA cost :
      /\ WholeCentsOf(value.monthlyPayment, payment)
      /\ WholeCentsOf(value.paymentBreakdown.principalAndInterest, payment)
      /\ WholeCentsOf(value.totalCost, cost)
      /\ WholeCentsOf(value.totalInterest, RatSubInt(cost, Principal(params)))
      /\ WholeCentsOfQuotient(value.paymentBreakdown.estimatedTaxes,
                              params.propertyPrice.v, 1000)
      /\ WholeCentsOfQuotient(value.paymentBreakdown.estimatedInsurance,
                              params.propertyPrice.v, 3000)))

\* the four amounts of advancedDetails are whole cents of the unrounded amounts
AdvancedFieldsWholeCents(params, value) ==
  LET details == value.advancedDetails
      pmi == IF BelowTwentyPercent(params) THEN Principal(params) * params.pmiRate.v ELSE 0
      tax == params.propertyPrice.v * params.propertyTaxRate
      insurance == params.propertyPrice.v * params.insuranceRate
  IN /\ WholeCentsOfQuotient(details.monthlyPmi, pmi, MonthlyRateDen)
     /\ WholeCentsOfQuotient(details.monthlyPropertyTax, tax, MonthlyRateDen)
     /\ WholeCentsOfQuotient(details.monthlyInsurance, insurance, MonthlyRateDen)
     /\ WholeCentsOfQuotient(details.totalMonthlyPayment,
                             value.monthlyPayment * MonthlyRateDen + pmi + tax + insurance,
                             MonthlyRateDen)

(***************************************************************************)
(* C14.  Every monetary output of the basic and of the advanced            *)
(* calculation (monthlyPayment, totalCost, totalInterest, the entries of   *)
(* paymentBreakdown, monthlyPmi, monthlyPropertyTax, monthlyInsurance,     *)
(* totalMonthlyPayment) is a whole number of cents: the one nearest to the *)
(* amount it rounds, as Math.round(x * 100) / 100 gives it.                *)
(***************************************************************************)
C14_OutputsAreWholeCents ==
  /\ (BasicDone /\ NumericParams(call.params) /\ HasPaymentFields(outcome.value)) =>
       BasicFieldsWholeCents(call.params, outcome.value)
  /\ (AdvancedDone /\ NumericParams(call.params) /\ HasAdvancedDetails(outcome.value)) =>
       /\ BasicFieldsWholeCents(call.params, outcome.value)
       /\ AdvancedFieldsWholeCents(call.params, outcome.value)

\* an advanced calculation has returned amounts none of which was a whole number of
\* cents before it was rounded
C14_Witness ==
  /\ AdvancedDone
  /\ ValidInput(call.params)
  /\ HasAdvancedDetails(outcome.value)
  /\ call.params.interestRate.v > 0
  /\ outcome.value.advancedDetails.monthlyPmi > 0
  /\ outcome.value.monthlyPayment * TermOrDefault(call.params.loanTermYears.v) * 12
       # outcome.value.totalCost
  /\ (Principal(call.params) * call.params.pmiRate.v) % MonthlyRateDen # 0
  /\ (call.params.propertyPrice.v * call.params.insuranceRate) % MonthlyRateDen # 0


\* the four base fields of a result object
BaseFields(value) ==
  [loanAmount |-> value.loanAmount,
   monthlyPayment |-> value.monthlyPayment,
   totalInterest |-> value.totalInterest,
   totalCost |-> value.totalCost]

(***************************************************************************)
(* C15.  calculateMortgageAdvanced delegates to the basic calculation:     *)
(* loanAmount, monthlyPayment, totalInterest and totalCost of its result   *)
(* are those of calculateMortgage called with the same propertyPrice,      *)
(* downPayment, interestRate and loanTermYears, and when the basic         *)
(* calculation returns an error the advanced call returns that same error  *)
(* and no advancedDetails.                                                 *)
(***************************************************************************)
C15_AdvancedDelegatesToBasic ==
  (AdvancedDone /\ IsObject(call.params)) =>
    Strict(calculateMortgage(call.params), LAMBDA basic :
      IF "error" \in DOMAIN basic.value
      THEN outcome.value = basic.value /\ ~HasAdvancedDetails(outcome.value)
      ELSE HasPaymentFields(outcome.value) =>
             BaseFields(outcome.value) = BaseFields(basic.value))

\* an advanced calculation has returned the base fields of a loan with a positive rate
\* over a term other than the default one
C15_Witness ==
  /\ AdvancedDone
  /\ ValidInput(call.params)
  /\ HasAdvancedDetails(outcome.value)
  /\ call.params.interestRate.v > 0
  /\ outcome.value.totalInterest > 0

\* an advanced calculation has returned the error of the basic calculation
C15_ErrorWitness ==
  /\ AdvancedDone
  /\ IsObject(call.params)
  /\ "error" \in DOMAIN outcome.value
  /\ outcome.value.error = "Failed to calculate mortgage: TypeError"


(***************************************************************************)
(* The socket server.  A socket joins session rooms, sends chat_message    *)
(* events, which the server passes to GeminiAIService.processMessage, and  *)
(* typing events, which the server relays.  A socket that disconnects      *)
(* leaves its rooms.                                                       *)
(***************************************************************************)
\* the payload of a chat_message event: null, or an object whose message is a string,
\* a number or missing
NullData == [null |-> TRUE]

MessageValues == {"string", "number", "undefined"}

ChatData ==
  {NullData} \cup [message : MessageValues,
                   sessionId : SessionIds \cup {NullSession},
                   userId : {"user"}]

\* the sockets joined to the room of that name
RoomOf(joined, id) == IF id \in DOMAIN joined THEN joined[id] ELSE {}

(***************************************************************************)
(* GeminiAIService.processMessage(data): the ways its promise may settle.  *)
(* The generative model answers, or it fails or is not initialized and the *)
(* catch block builds the fallback answer with message.toLowerCase(),      *)
(* which throws a TypeError when the message is not a string.              *)
(***************************************************************************)
GeminiProcessMessage(data) ==
  {[status |-> "fulfilled",
    value |-> [response |-> "answer of the model", sessionId |-> data.sessionId,
               timestamp |-> "now", toolsUsed |-> <<"gemini-ai", "real-estate-analysis">>,
               propertyData |-> "null", executionTime |-> "elapsed"]]}
  \cup
  (IF data.message = "string"
   THEN {[status |-> "fulfilled",
          value |-> [response |-> "fallback answer", sessionId |-> data.sessionId,
                     timestamp |-> "now", toolsUsed |-> <<"smart-fallback">>,
                     propertyData |-> "null", executionTime |-> "elapsed"]]}
   ELSE {[status |-> "rejected", value |-> [exception |-> "TypeError"]]})

\* socket.emit: the sending socket only
ToSenderOnly(joined, sender, id) == {sender}

\* io.to(sessionId): every socket joined to the room
AiResponseRecipients(joined, sender, id) == RoomOf(joined, id)

\* io.to(sessionId): every socket joined to the room, the sender too
ToWholeRoom(joined, sender, id) == RoomOf(joined, id)

\* socket.to(sessionId): every socket joined to the room except the sender
TypingRecipients(joined, sender, id) == RoomOf(joined, id) \ {sender}

\* the error event the catch block of the chat_message handler emits
ErrorEvent(sender, exception) ==
  [event |-> "error", to |-> {sender},
   payload |-> [message |-> "Failed to process message", error |-> exception]]

\* the ai_response event the chat_message handler emits for the response
AiResponseEvent(joined, sender, data, response) ==
  [event |-> "ai_response",
   to |-> AiResponseRecipients(joined, sender, data.sessionId),
   payload |-> [response |-> response.response,
                sessionId |-> response.sessionId,
                timestamp |-> response.timestamp,
                toolsUsed |-> response.toolsUsed,
                propertyData |-> response.propertyData,
                executionTime |-> response.executionTime]]

\* a socket connects
Connect(socket) ==
  /\ socket \notin connected
  /\ connected' = connected \cup {socket}
  /\ outbox' = {}
  /\ UNCHANGED <<rooms, msgs>>
  /\ UNCHANGED exceptChat

\* a socket disconnects and leaves its rooms
Disconnect(socket) ==
  /\ socket \in connected
  /\ connected' = connected \ {socket}
  /\ rooms' = [id \in SessionIds |-> rooms[id] \ {socket}]
  /\ outbox' = {}
  /\ UNCHANGED msgs
  /\ UNCHANGED exceptChat

\* the handler of join_session
JoinSession(socket, id) ==
  /\ socket \in connected
  /\ rooms' = [rooms EXCEPT ![id] = rooms[id] \cup {socket}]
  /\ outbox' = {}
  /\ UNCHANGED <<connected, msgs>>
  /\ UNCHANGED exceptChat

(***************************************************************************)
(* The handler of chat_message up to its await.  Destructuring null and    *)
(* reading the length of a missing message throw a TypeError, which the    *)
(* catch block reports to the sender.                                      *)
(***************************************************************************)
ChatMessage(m, socket, data) ==
  /\ socket \in connected
  /\ msgs[m].pc = "none"
  /\ IF data = NullData \/ data.message = "undefined"
     THEN /\ msgs' = [msgs EXCEPT ![m] =
                        [pc |-> "done", sender |-> socket, data |-> data,
                         emitted |-> <<ErrorEvent(socket, "TypeError")>>]]
          /\ outbox' = {ErrorEvent(socket, "TypeError")}
     ELSE /\ msgs' = [msgs EXCEPT ![m] =
                        [pc |-> "await", sender |-> socket, data |-> data,
                         emitted |-> <<>>]]
          /\ outbox' = {}
  /\ UNCHANGED <<connected, rooms>>
  /\ UNCHANGED exceptChat

\* the handler of chat_message from its await: processMessage has settled
ChatMessageResume(m) ==
  /\ msgs[m].pc = "await"
  /\ \E settled \in GeminiProcessMessage(msgs[m].data) :
       \E emission \in {IF settled.status = "fulfilled"
                        THEN AiResponseEvent(rooms, msgs[m].sender, msgs[m].data,
                                             settled.value)
                        ELSE ErrorEvent(msgs[m].sender, settled.value.exception)} :
         /\ msgs' = [msgs EXCEPT ![m].pc = "done",
                                 ![m].emitted = Append(msgs[m].emitted, emission)]
         /\ outbox' = {emission}
  /\ UNCHANGED <<connected, rooms>>
  /\ UNCHANGED exceptChat

\* the handler of typing_start
TypingStart(socket, id) ==
  /\ socket \in connected
  /\ outbox' = {[event |-> "user_typing",
                 room |-> id,
                 to |-> TypingRecipients(rooms, socket, id),
                 payload |-> [socketId |-> socket]]}
  /\ UNCHANGED <<connected, rooms, msgs>>
  /\ UNCHANGED exceptChat

\* the handler of typing_stop
TypingStop(socket, id) ==
  /\ socket \in connected
  /\ outbox' = {[event |-> "user_stopped_typing",
                 room |-> id,
                 to |-> TypingRecipients(rooms, socket, id),
                 payload |-> [socketId |-> socket]]}
  /\ UNCHANGED <<connected, rooms, msgs>>
  /\ UNCHANGED exceptChat

NextChat ==
  \/ \E socket \in Sockets : Connect(socket)
  \/ \E socket \in Sockets : Disconnect(socket)
  \/ \E socket \in Sockets, id \in SessionIds : JoinSession(socket, id)
  \/ \E m \in Messages, socket \in Sockets, data \in ChatData : ChatMessage(m, socket, data)
  \/ \E m \in Messages : ChatMessageResume(m)

SpecChat == Init /\ [][NextChat]_vars

\* the sockets join rooms and send typing events
NextTyping ==
  \/ \E socket \in Sockets : Connect(socket)
  \/ \E socket \in Sockets : Disconnect(socket)
  \/ \E socket \in Sockets, id \in SessionIds : JoinSession(socket, id)
  \/ \E socket \in Sockets, id \in SessionIds : TypingStart(socket, id)
  \/ \E socket \in Sockets, id \in SessionIds : TypingStop(socket, id)

SpecTyping == Init /\ [][NextTyping]_vars

\* processMessage settles, and the event loop then resumes the handler that awaits it
FairSpecChat == SpecChat /\ \A m \in Messages : WF_vars(ChatMessageResume(m))


\* the event is an ai_response with its six fields
IsAiResponse(emission) ==
  /\ emission.event = "ai_response"
  /\ DOMAIN emission.payload =
       {"response", "sessionId", "timestamp", "toolsUsed", "propertyData", "executionTime"}

\* the event is an error with its two fields, emitted to that socket only
IsErrorTo(emission, socket) ==
  /\ emission.event = "error"
  /\ DOMAIN emission.payload = {"message", "error"}
  /\ emission.to = {socket}

\* what the server has emitted for a chat_message event so far is one ai_response or
\* one error to the sender once the handler has ended, and nothing before
OneEmission(m) ==
  /\ msgs[m].pc \in {"none", "await"} => msgs[m].emitted = <<>>
  /\ msgs[m].pc = "done" =>
       /\ Len(msgs[m].emitted) = 1
       /\ \/ IsAiResponse(msgs[m].emitted[1])
          \/ IsErrorTo(msgs[m].emitted[1], msgs[m].sender)

\* a step that emits an ai_response emits it to the sockets joined, at that moment, to
\* the room named by the sessionId of the message
AiResponseToRoom(m) ==
  (Len(msgs'[m].emitted) > Len(msgs[m].emitted)
   /\ msgs'[m].emitted[Len(msgs'[m].emitted)].event = "ai_response") =>
    msgs'[m].emitted[Len(msgs'[m].emitted)].to = RoomOf(rooms, msgs'[m].data.sessionId)

(***************************************************************************)
(* C16.  For every chat_message event the server receives, exactly one of  *)
(* two events is eventually emitted, never both and never neither: an      *)
(* ai_response {response, sessionId, timestamp, toolsUsed, propertyData,   *)
(* executionTime} to every socket joined to the room named by the          *)
(* sessionId of the message, or an error {message, error} to the sending   *)
(* socket only.                                                            *)
(***************************************************************************)
C16_ExactlyOneResponseOrError ==
  /\ [](\A m \in Messages : OneEmission(m))
  /\ [][\A m \in Messages : AiResponseToRoom(m)]_vars
  /\ \A m \in Messages : (msgs[m].pc # "none") ~> (msgs[m].pc = "done")

\* an ai_response has been emitted to a room that the sender and another socket had joined
C16_Witness ==
  \E m \in Messages :
    /\ msgs[m].pc = "done"
    /\ IsAiResponse(msgs[m].emitted[1])
    /\ msgs[m].sender \in msgs[m].emitted[1].to
    /\ msgs[m].emitted[1].to # {msgs[m].sender}

\* an error has been emitted to the sender of a message that processMessage rejected
C16_ErrorWitness ==
  \E m \in Messages :
    /\ msgs[m].pc = "done"
    /\ msgs[m].data # NullData
    /\ msgs[m].data.message = "number"
    /\ IsErrorTo(msgs[m].emitted[1], msgs[m].sender)


\* the event relays typing
IsTypingRelay(emission) == emission.event \in {"user_typing", "user_stopped_typing"}

\* the relay carries the socket id of a sender and went to the sockets joined to its
\* room other than the sender
RelayedToOthers(emission) ==
  /\ DOMAIN emission.payload = {"socketId"}
  /\ emission.payload.socketId \in Sockets
  /\ emission.payload.socketId \notin emission.to
  /\ \A socket \in Sockets \ {emission.payload.socketId} :
       socket \in emission.to <=> socket \in RoomOf(rooms, emission.room)

\* a step of the typing_start handler emits user_typing, one of typing_stop
\* user_stopped_typing, for the room and from the socket of the event
RelayNamed ==
  \A socket \in Sockets, id \in SessionIds :
    /\ TypingStart(socket, id) =>
         \E emission \in outbox' :
           /\ emission.event = "user_typing"
           /\ emission.room = id
           /\ emission.payload.socketId = socket
    /\ TypingStop(socket, id) =>
         \E emission \in outbox' :
           /\ emission.event = "user_stopped_typing"
           /\ emission.room = id
           /\ emission.payload.socketId = socket

(***************************************************************************)
(* C17.  A typing_start (typing_stop) event a socket sends for a sessionId *)
(* is relayed as user_typing (user_stopped_typing) carrying the socket id  *)
(* of the sender to every other socket joined to that room, never to the   *)
(* sender and never to a socket that has not joined the room.              *)
(***************************************************************************)
C17_TypingRelayedToOthers ==
  /\ [](\A emission \in outbox : IsTypingRelay(emission) => RelayedToOthers(emission))
  /\ [][RelayNamed]_vars

\* a socket that has joined a room with another socket has sent a typing event for it,
\* while the other room has a member too
C17_Witness ==
  \E emission \in outbox :
    /\ IsTypingRelay(emission)
    /\ emission.payload.socketId \in RoomOf(rooms, emission.room)
    /\ emission.to # {}
    /\ \E id \in SessionIds \ {emission.room} : rooms[id] # {}


(***************************************************************************)
(* AIService: processMessage with validatePromptRelevance and              *)
(* determineRequiredTools.  A message is the sequence of its characters,   *)
(* so that String.includes is the search for a substring.                  *)
(***************************************************************************)
UpperCase ==
  <<"A", "B", "C", "D", "E", "F", "G", "H", "I", "J", "K", "L", "M",
    "N", "O", "P", "Q", "R", "S", "T", "U", "V", "W", "X", "Y", "Z">>

LowerCase ==
  <<"a", "b", "c", "d", "e", "f", "g", "h", "i", "j", "k", "l", "m",
    "n", "o", "p", "q", "r", "s", "t", "u", "v", "w", "x", "y", "z">>

\* String.toLowerCase, on the letters A to Z
toLowerCase(text) ==
  [i \in 1..Len(text) |->
     IF \E k \in 1..Len(UpperCase) : UpperCase[k] = text[i]
     THEN LowerCase[CHOOSE k \in 1..Len(UpperCase) : UpperCase[k] = text[i]]
     ELSE text[i]]

\* String.includes
Includes(text, keyword) ==
  \E i \in 1..(Len(text) - Len(keyword) + 1) :
    SubSeq(text, i, i + Len(keyword) - 1) = keyword

\* Array.some(keyword => text.includes(keyword))
IncludesSome(text, keywords) ==
  \E k \in 1..Len(keywords) : Includes(text, keywords[k])

realEstateKeywords ==
  <<
   <<"p", "r", "o", "p", "e", "r", "t", "y">>, <<"h", "o", "u", "s", "e">>,
   <<"a", "p", "a", "r", "t", "m", "e", "n", "t">>,
   <<"r", "e", "a", "l", " ", "e", "s", "t", "a", "t", "e">>,
   <<"m", "o", "r", "t", "g", "a", "g", "e">>, <<"l", "o", "a", "n">>,
   <<"b", "u", "y">>, <<"s", "e", "l", "l">>, <<"r", "e", "n", "t">>,
   <<"i", "n", "v", "e", "s", "t", "m", "e", "n", "t">>,
   <<"m", "a", "r", "k", "e", "t">>, <<"p", "r", "i", "c", "e">>,
   <<"v", "a", "l", "u", "e">>, <<"l", "o", "c", "a", "t", "i", "o", "n">>,
   <<"h", "y", "d", "e", "r", "a", "b", "a", "d">>,
   <<"b", "a", "n", "g", "a", "l", "o", "r", "e">>,
   <<"m", "u", "m", "b", "a", "i">>, <<"d", "e", "l", "h", "i">>,
   <<"p", "u", "n", "e">>, <<"c", "h", "e", "n", "n", "a", "i">>,
   <<"k", "o", "l", "k", "a", "t", "a">>,
   <<"a", "h", "m", "e", "d", "a", "b", "a", "d">>,
   <<"s", "u", "r", "a", "t">>, <<"j", "a", "i", "p", "u", "r">>,
   <<"l", "u", "c", "k", "n", "o", "w">>,
   <<"i", "n", "t", "e", "r", "e", "s", "t", " ", "r", "a", "t", "e">>,
   <<"d", "o", "w", "n", " ", "p", "a", "y", "m", "e", "n", "t">>,
   <<"e", "m", "i">>, <<"s", "q", " ", "f", "t">>, <<"b", "h", "k">>,
   <<"v", "i", "l", "l", "a">>, <<"p", "l", "o", "t">>,
   <<"l", "a", "n", "d">>,
   <<"c", "o", "n", "s", "t", "r", "u", "c", "t", "i", "o", "n">>,
   <<"b", "u", "i", "l", "d", "e", "r">>,
   <<"p", "r", "o", "j", "e", "c", "t">>,
   <<"a", "m", "e", "n", "i", "t", "i", "e", "s">>,
   <<"g", "a", "t", "e", "d", " ", "c", "o", "m", "m", "u", "n", "i", "t", "y">>
  >>

SearchKeywords ==
  <<
   <<"p", "r", "o", "p", "e", "r", "t", "y">>, <<"h", "o", "u", "s", "e">>,
   <<"a", "p", "a", "r", "t", "m", "e", "n", "t">>,
   <<"s", "e", "a", "r", "c", "h">>, <<"f", "i", "n", "d">>,
   <<"l", "o", "o", "k", "i", "n", "g", " ", "f", "o", "r">>
  >>

MortgageKeywords ==
  <<
   <<"m", "o", "r", "t", "g", "a", "g", "e">>, <<"l", "o", "a", "n">>,
   <<"e", "m", "i">>, <<"c", "a", "l", "c", "u", "l", "a", "t", "e">>
  >>

RateKeywords ==
  <<
   <<"i", "n", "t", "e", "r", "e", "s", "t", " ", "r", "a", "t", "e">>,
   <<"r", "a", "t", "e">>, <<"b", "a", "n", "k">>
  >>

DetailKeywords ==
  <<
   <<"p", "r", "i", "c", "e">>, <<"v", "a", "l", "u", "e">>,
   <<"c", "o", "s", "t">>, <<"w", "o", "r", "t", "h">>
  >>

\* the tools registered in this.mcpTools
mcpTools ==
  {"validatePromptRelevance", "searchPropertyInfo", "getPropertyDetails",
   "getInterestRates", "calculateMortgage"}

\* the answer to a message that is not about real estate
FilteredContent == "I'm Blue Pixel AI, your specialized real estate assistant! ..."

\* the relevance check that lets every message pass
validatePromptRelevanceLenient(message) == [isValid |-> TRUE]

\* AIService.validatePromptRelevance(message), for a string
validatePromptRelevance(message) ==
  IF ~IncludesSome(toLowerCase(message), realEstateKeywords)
     /\ Len(toLowerCase(message)) > 10
  THEN [isValid |-> FALSE, filteredContent |-> FilteredContent]
  ELSE [isValid |-> TRUE]

\* the tools pushed, in the order of the four if statements
ToolsPushed(lowerMessage) ==
  (IF IncludesSome(lowerMessage, SearchKeywords) THEN <<"searchPropertyInfo">> ELSE <<>>)
  \o (IF IncludesSome(lowerMessage, MortgageKeywords) THEN <<"calculateMortgage">> ELSE <<>>)
  \o (IF IncludesSome(lowerMessage, RateKeywords) THEN <<"getInterestRates">> ELSE <<>>)
  \o (IF IncludesSome(lowerMessage, DetailKeywords) THEN <<"getPropertyDetails">> ELSE <<>>)

\* the tools pushed, returned as they are
determineRequiredToolsAsPushed(message) == ToolsPushed(toLowerCase(message))

\* AIService.determineRequiredTools(message)
determineRequiredTools(message) ==
  IF Len(ToolsPushed(toLowerCase(message))) > 0
  THEN ToolsPushed(toLowerCase(message))
  ELSE <<"searchPropertyInfo">>

\* AIService.extractPropertyData(toolResults), toolResults given by the tools that ran
extractPropertyData(toolResults) ==
  IF "searchPropertyInfo" \in toolResults \/ "getPropertyDetails" \in toolResults
  THEN [hasPropertyData |-> TRUE,
        of |-> toolResults \cap {"searchPropertyInfo", "getPropertyDetails"}]
  ELSE [null |-> TRUE]

\* the largest number of words of a message
MaxWords == 2

\* the words messages are made of
Words ==
  <<
   <<"l", "o", "o", "k", "i", "n", "g", " ", "f", "o", "r">>, <<"L", "o", "a", "n">>, <<"r", "a", "t", "e">>,
   <<"b", "a", "n", "k">>, <<"c", "o", "s", "t">>,
   <<"h", "e", "l", "l", "o">>, <<"w", "e", "a", "t", "h", "e", "r">>,
   <<"t", "e", "l", "l", " ", "m", "e", " ", "a", " ", "j", "o", "k", "e">>
  >>

\* the words put together with a space between them
RECURSIVE JoinWords(_)
JoinWords(chosen) ==
  IF Len(chosen) = 0 THEN <<>>
  ELSE IF Len(chosen) = 1 THEN Words[chosen[1]]
  ELSE Words[chosen[1]] \o <<" ">> \o JoinWords(Tail(chosen))

\* the messages of one to MaxWords words
Texts ==
  {JoinWords(chosen) :
     chosen \in UNION {[1..n -> 1..Len(Words)] : n \in 1..MaxWords}}

\* the object processMessage returns, with the sessionId it was called with
ServiceResult(response, toolsUsed, propertyData) ==
  [response |-> response, sessionId |-> ai.sessionId, timestamp |-> "now",
   toolsUsed |-> toolsUsed, propertyData |-> propertyData, executionTime |-> "elapsed"]

\* a catch block that reports the tools determined before the failure
CatchBlockWithToolsToUse ==
  ServiceResult("Gemini is unavailable. Please try again shortly.", ai.toolsToUse,
                [null |-> TRUE])

\* the object the catch block of processMessage returns
CatchBlock ==
  ServiceResult("Gemini is unavailable. Please try again shortly.", <<"gemini-ai">>,
                [null |-> TRUE])

\* processMessage up to its first await: it calls validatePromptRelevance
ProcessMessage(message, sessionId) ==
  /\ ai.pc = "idle"
  /\ ai' = [ai EXCEPT !.pc = "validate",
                      !.service = "AIService",
                      !.message = message,
                      !.sessionId = sessionId,
                      !.isRelevant = validatePromptRelevance(message)]
  /\ UNCHANGED exceptAI

(***************************************************************************)
(* processMessage from the await of validatePromptRelevance: it returns    *)
(* the redirection, or determines the tools and calls the first of them,   *)
(* or the model when the list is empty.                                    *)
(***************************************************************************)
ProcessMessageValidated ==
  /\ ai.pc = "validate"
  /\ IF ~ai.isRelevant.isValid
     THEN ai' = [ai EXCEPT !.pc = "done",
                           !.result = ServiceResult(ai.isRelevant.filteredContent,
                                                    <<"validatePromptRelevance">>,
                                                    [null |-> TRUE])]
     ELSE \E toolsToUse \in {determineRequiredTools(ai.message)} :
            IF Len(toolsToUse) > 0
            THEN ai' = [ai EXCEPT !.pc = "tool",
                                  !.toolsToUse = toolsToUse,
                                  !.invoked = <<toolsToUse[1]>>]
            ELSE ai' = [ai EXCEPT !.pc = "generate",
                                  !.toolsToUse = toolsToUse,
                                  !.invoked = <<"generateContent">>]
  /\ UNCHANGED exceptAI

\* processMessage from the await of a tool: it calls the next tool or the model
ProcessMessageToolDone ==
  /\ ai.pc = "tool"
  /\ \E done \in {ai.toolResults \cup {ai.invoked[Len(ai.invoked)]}} :
       IF Cardinality(done) < Len(ai.toolsToUse)
       THEN ai' = [ai EXCEPT !.toolResults = done,
                             !.invoked = Append(ai.invoked,
                                                ai.toolsToUse[Cardinality(done) + 1])]
       ELSE ai' = [ai EXCEPT !.pc = "generate",
                             !.toolResults = done,
                             !.invoked = Append(ai.invoked, "generateContent")]
  /\ UNCHANGED exceptAI

\* processMessage from the await of generateGeminiResponse, which answered
ProcessMessageGenerated ==
  /\ ai.pc = "generate"
  /\ ai' = [ai EXCEPT !.pc = "done",
                      !.result = ServiceResult("answer of the model", ai.toolsToUse,
                                               extractPropertyData(ai.toolResults))]
  /\ UNCHANGED exceptAI

\* processMessage from the await of a tool, which threw
ProcessMessageToolCaught ==
  /\ ai.pc = "tool"
  /\ ai' = [ai EXCEPT !.pc = "done", !.failed = "tool", !.result = CatchBlock]
  /\ UNCHANGED exceptAI

\* processMessage from the await of generateGeminiResponse, which threw
ProcessMessageCaught ==
  /\ ai.pc = "generate"
  /\ ai' = [ai EXCEPT !.pc = "done", !.failed = "model", !.result = CatchBlock]
  /\ UNCHANGED exceptAI

\* the caller takes the result
ProcessMessageReturned ==
  /\ ai.pc = "done"
  /\ ai' = IdleService
  /\ UNCHANGED exceptAI

NextAI ==
  \/ \E message \in Texts, sessionId \in SessionIds \cup {NullSession} :
       ProcessMessage(message, sessionId)
  \/ ProcessMessageValidated
  \/ ProcessMessageToolDone
  \/ ProcessMessageToolCaught
  \/ ProcessMessageGenerated
  \/ ProcessMessageCaught
  \/ ProcessMessageReturned

SpecAI == Init /\ [][NextAI]_vars


\* the message has no real-estate keyword and more than 10 characters
OffTopic(message) ==
  /\ \A k \in 1..Len(realEstateKeywords) :
       ~Includes(toLowerCase(message), realEstateKeywords[k])
  /\ Len(message) > 10

(***************************************************************************)
(* C18.  In AIService.processMessage a message that is off topic (no       *)
(* real-estate keyword and more than 10 characters) is redirected: the     *)
(* response is the filteredContent of validatePromptRelevance, toolsUsed   *)
(* is exactly <<"validatePromptRelevance">>, propertyData is null, and no  *)
(* tool and no generative model is invoked.                                *)
(***************************************************************************)
C18_OffTopicRedirected ==
  (ai.pc # "idle" /\ OffTopic(ai.message)) =>
    /\ ai.invoked = <<>>
    /\ ai.pc \in {"validate", "done"}
    /\ ai.pc = "done" =>
         /\ ai.result.response = FilteredContent
         /\ ai.result.toolsUsed = <<"validatePromptRelevance">>
         /\ ai.result.propertyData = [null |-> TRUE]

\* processMessage has returned for an off-topic message that contains keywords of
\* determineRequiredTools
C18_Witness ==
  /\ ai.pc = "done"
  /\ OffTopic(ai.message)
  /\ Len(determineRequiredToolsAsPushed(ai.message)) > 1

\* the position of a tool in the order of the four if statements
ToolOrder(tool) ==
  CHOOSE k \in 1..4 :
    <<"searchPropertyInfo", "calculateMortgage", "getInterestRates",
      "getPropertyDetails">>[k] = tool

\* the message contains none of the keywords of determineRequiredTools
NoToolKeyword(message) ==
  \A keywords \in {SearchKeywords, MortgageKeywords, RateKeywords, DetailKeywords} :
    \A k \in 1..Len(keywords) : ~Includes(toLowerCase(message), keywords[k])

\* the list is non-empty, names registered tools only, and is in the fixed order, which
\* leaves no room for a duplicate
ToolListInOrder(tools) ==
  /\ Len(tools) > 0
  /\ \A i \in 1..Len(tools) :
       /\ tools[i] \in mcpTools
       /\ tools[i] \in {"searchPropertyInfo", "calculateMortgage", "getInterestRates",
                        "getPropertyDetails"}
  /\ \A i \in 1..Len(tools), j \in 1..Len(tools) :
       i < j => ToolOrder(tools[i]) < ToolOrder(tools[j])

(***************************************************************************)
(* C19.  determineRequiredTools(message) returns a non-empty list without  *)
(* duplicates of tools registered in mcpTools, in the fixed order          *)
(* searchPropertyInfo, calculateMortgage, getInterestRates,                *)
(* getPropertyDetails, and exactly <<"searchPropertyInfo">> when no        *)
(* keyword matches.                                                        *)
(***************************************************************************)
C19_ToolsInFixedOrder ==
  ai.pc # "idle" =>
    /\ ToolListInOrder(determineRequiredTools(ai.message))
    /\ NoToolKeyword(ai.message) =>
         determineRequiredTools(ai.message) = <<"searchPropertyInfo">>
    /\ ai.pc \in {"tool", "generate"} =>
         ai.toolsToUse = determineRequiredTools(ai.message)

\* the tools have been determined for a message that names the cost before the loan,
\* the loan with a capital letter
C19_Witness ==
  /\ ai.pc = "generate"
  /\ ai.toolsToUse = <<"calculateMortgage", "getPropertyDetails">>
  /\ ai.message[1] = "c"
  /\ ~Includes(ai.message, <<"l", "o", "a", "n">>)

\* the tools have been determined for a message without any keyword
C19_DefaultWitness ==
  /\ ai.pc = "generate"
  /\ NoToolKeyword(ai.message)
  /\ ai.toolsToUse = <<"searchPropertyInfo">>


(***************************************************************************)
(* The web client, chatApp() of public/index.html, with the server that    *)
(* serves it.  Every connection of the client is a socket of its own to    *)
(* the server, every session the server creates has an id of its own, and  *)
(* what the client emits while it is not connected is buffered and sent    *)
(* when it connects.                                                       *)
(***************************************************************************)
\* init(): initializeSocket() and createNewSession() up to its fetch
ClientInit ==
  /\ ~client.started
  /\ client' = [client EXCEPT !.started = TRUE, !.fetching = TRUE]
  /\ UNCHANGED chatVars
  /\ UNCHANGED exceptClient

\* the socket connects: the server gets the buffered join_session events, the client
\* its connect event
ClientConnect(socket) ==
  /\ client.started
  /\ client.socket = "none"
  /\ socket \notin client.usedSockets
  /\ connected' = connected \cup {socket}
  /\ rooms' = [id \in SessionIds |->
                 IF id \in client.sendBuffer THEN rooms[id] \cup {socket} ELSE rooms[id]]
  /\ outbox' = {}
  /\ client' = [client EXCEPT !.socketConnected = TRUE,
                              !.socket = socket,
                              !.usedSockets = client.usedSockets \cup {socket},
                              !.sendBuffer = {}]
  /\ UNCHANGED msgs
  /\ UNCHANGED exceptClient

\* the connection is lost: the socket leaves its rooms, the client gets its disconnect event
ClientDisconnect ==
  /\ client.socket # "none"
  /\ connected' = connected \ {client.socket}
  /\ rooms' = [id \in SessionIds |-> rooms[id] \ {client.socket}]
  /\ outbox' = {}
  /\ client' = [client EXCEPT !.socketConnected = FALSE, !.socket = "none"]
  /\ UNCHANGED msgs
  /\ UNCHANGED exceptClient

\* the user asks for a new session: createNewSession() up to its fetch
CreateNewSession ==
  /\ client.started
  /\ ~client.fetching
  /\ client' = [client EXCEPT !.fetching = TRUE]
  /\ UNCHANGED chatVars
  /\ UNCHANGED exceptClient

\* createNewSession() from its fetch, answered with the new session: join_session is
\* emitted, and buffered while the socket is not connected
CreateNewSessionOk(id) ==
  /\ client.fetching
  /\ id \notin client.usedSessions
  /\ IF client.socket # "none"
     THEN /\ rooms' = [rooms EXCEPT ![id] = rooms[id] \cup {client.socket}]
          /\ client' = [client EXCEPT !.fetching = FALSE,
                                      !.sessionId = id,
                                      !.usedSessions = client.usedSessions \cup {id}]
     ELSE /\ rooms' = rooms
          /\ client' = [client EXCEPT !.fetching = FALSE,
                                      !.sessionId = id,
                                      !.usedSessions = client.usedSessions \cup {id},
                                      !.sendBuffer = client.sendBuffer \cup {id}]
  /\ outbox' = {}
  /\ UNCHANGED <<connected, msgs>>
  /\ UNCHANGED exceptClient

\* createNewSession() from its fetch, which failed or was answered with an error status
CreateNewSessionFailed ==
  /\ client.fetching
  /\ client' = [client EXCEPT !.fetching = FALSE]
  /\ UNCHANGED chatVars
  /\ UNCHANGED exceptClient

\* sendMessage() with a message typed, and the chat_message handler up to its await
SendMessage(m) ==
  /\ client.socketConnected
  /\ msgs[m].pc = "none"
  /\ client' = [client EXCEPT !.isTyping = TRUE]
  /\ msgs' = [msgs EXCEPT ![m] =
                [pc |-> "await", sender |-> client.socket,
                 data |-> [message |-> "string", sessionId |-> client.sessionId,
                           userId |-> "user"],
                 emitted |-> <<>>]]
  /\ outbox' = {}
  /\ UNCHANGED <<connected, rooms>>
  /\ UNCHANGED exceptClient

\* the chat_message handler from its await, and the ai_response or error handler of the
\* client when the event goes to its socket
ServerResponds(m) ==
  /\ msgs[m].pc = "await"
  /\ \E settled \in GeminiProcessMessage(msgs[m].data) :
       \E emission \in {IF settled.status = "fulfilled"
                        THEN AiResponseEvent(rooms, msgs[m].sender, msgs[m].data,
                                             settled.value)
                        ELSE ErrorEvent(msgs[m].sender, settled.value.exception)} :
         /\ msgs' = [msgs EXCEPT ![m].pc = "done",
                                 ![m].emitted = Append(msgs[m].emitted, emission)]
         /\ outbox' = {emission}
         /\ client' = IF client.socket \in emission.to
                      THEN [client EXCEPT !.isTyping = FALSE]
                      ELSE client
  /\ UNCHANGED <<connected, rooms>>
  /\ UNCHANGED exceptClient

NextClient ==
  \/ ClientInit
  \/ \E socket \in Sockets : ClientConnect(socket)
  \/ ClientDisconnect
  \/ CreateNewSession
  \/ \E id \in SessionIds : CreateNewSessionOk(id)
  \/ CreateNewSessionFailed
  \/ \E m \in Messages : SendMessage(m)
  \/ \E m \in Messages : ServerResponds(m)

SpecClient == Init /\ [][NextClient]_vars

\* the server finishes processing every message, and every fetch is answered or fails
FairSpecClient ==
  /\ SpecClient
  /\ \A m \in Messages : WF_vars(ServerResponds(m))
  /\ WF_vars((\E id \in SessionIds : CreateNewSessionOk(id)) \/ CreateNewSessionFailed)

(***************************************************************************)
(* C20.  In the web client every sendMessage that sets isTyping to true is *)
(* eventually followed by isTyping = false, an ai_response or an error     *)
(* reaching the client, whatever the order of connect, disconnect,         *)
(* reconnect, of the success or failure of the session creation and of     *)
(* join_session, provided the server finishes processing.  The code does   *)
(* not ensure this.                                                        *)
(***************************************************************************)
C20_TypingEventuallyCleared == client.isTyping ~> ~client.isTyping

(***************************************************************************)
(* Two chat_message events in the order of their arrival: the server runs  *)
(* the handler for the first event up to its await before it runs the      *)
(* handler for the second, and resumes each handler when its own call of   *)
(* processMessage has settled.                                             *)
(***************************************************************************)
ChatMessageInOrder(m, socket, data) ==
  /\ \A first \in OrderedMessages : first < m => msgs[first].pc # "none"
  /\ ChatMessage(m, socket, data)

NextOrder ==
  \/ \E socket \in Sockets : Connect(socket)
  \/ \E socket \in Sockets : Disconnect(socket)
  \/ \E socket \in Sockets, id \in SessionIds : JoinSession(socket, id)
  \/ \E m \in OrderedMessages, socket \in Sockets, data \in ChatData :
       ChatMessageInOrder(m, socket, data)
  \/ \E m \in OrderedMessages : ChatMessageResume(m)

SpecOrder == Init /\ [][NextOrder]_vars

\* the server has emitted the ai_response for that event
ResponseEmitted(m) ==
  /\ msgs[m].pc = "done"
  /\ msgs[m].emitted[1].event = "ai_response"

(***************************************************************************)
(* C21.  For any two chat_message events of the same session that the      *)
(* server receives in the order m1 then m2, the ai_response for m1 is      *)
(* emitted to the session room before the ai_response for m2, under every  *)
(* interleaving of the asynchronous AI calls: when the response for m2 has *)
(* been emitted to the sockets of the room and both events carry a string, *)
(* for which processMessage always returns a response, the response for m1 *)
(* has been emitted.  The code does not ensure this.                       *)
(***************************************************************************)
C21_ResponsesInArrivalOrder ==
  \A m1, m2 \in OrderedMessages :
    (/\ m1 < m2
     /\ ResponseEmitted(m2)
     /\ msgs[m2].emitted[1].to # {}
     /\ msgs[m2].data.message = "string"
     /\ msgs[m1].data # NullData
     /\ msgs[m1].data.message = "string"
     /\ msgs[m1].data.sessionId = msgs[m2].data.sessionId
     /\ msgs[m1].data.sessionId \in SessionIds)
    => ResponseEmitted(m1)

(***************************************************************************)
(* GeminiAIService.processMessage of server.js, step by step.  The service *)
(* was constructed with or without a usable API key; the message is a      *)
(* string or, as the socket handler passes on whatever it receives, not a  *)
(* string.                                                                 *)
(***************************************************************************)
\* the branch of the fallback the catch block takes
fallbackResponse(message) ==
  IF IncludesSome(toLowerCase(message),
                  << <<"m", "a", "r", "k", "e", "t", " ", "a", "n", "a", "l", "y", "s", "i", "s">>,
                     <<"m", "a", "r", "k", "e", "t">> >>)
  THEN "Real Estate Market Analysis"
  ELSE IF IncludesSome(toLowerCase(message),
                       << <<"p", "r", "o", "p", "e", "r", "t", "y">>,
                          <<"h", "o", "u", "s", "e">>,
                          <<"a", "p", "a", "r", "t", "m", "e", "n", "t">> >>)
  THEN "Property Investment Guide"
  ELSE IF IncludesSome(toLowerCase(message),
                       << <<"m", "o", "r", "t", "g", "a", "g", "e">>,
                          <<"l", "o", "a", "n">>, <<"e", "m", "i">> >>)
  THEN "Mortgage & Loan Information"
  ELSE "fallback mode"

\* a catch block that answers without the sessionId
GeminiCatchBlockWithoutSession(message, isString, sessionId) ==
  IF isString
  THEN [pc |-> "done",
        result |-> [response |-> fallbackResponse(message), sessionId |-> NullSession,
                    timestamp |-> "now", toolsUsed |-> <<"smart-fallback">>,
                    propertyData |-> [null |-> TRUE], executionTime |-> "elapsed"]]
  ELSE [pc |-> "rejected", result |-> [exception |-> "TypeError"]]

\* the catch block: message.toLowerCase() throws out of it when the message is not a
\* string, otherwise it returns the fallback answer
GeminiCatchBlock(message, isString, sessionId) ==
  IF isString
  THEN [pc |-> "done",
        result |-> [response |-> fallbackResponse(message), sessionId |-> sessionId,
                    timestamp |-> "now", toolsUsed |-> <<"smart-fallback">>,
                    propertyData |-> [null |-> TRUE], executionTime |-> "elapsed"]]
  ELSE [pc |-> "rejected", result |-> [exception |-> "TypeError"]]

\* the messages the service may be called with: the texts, and a value that is no string
GeminiMessages ==
  {[isString |-> TRUE, text |-> text] : text \in Texts}
  \cup {[isString |-> FALSE, text |-> <<>>]}

\* processMessage up to its await of generateContent, or through its catch block when
\* the service is not initialized
GeminiProcessMessageCall(message, sessionId, isInitialized) ==
  /\ ai.pc = "idle"
  /\ IF isInitialized
     THEN ai' = [ai EXCEPT !.pc = "generateContent",
                           !.service = "GeminiAIService",
                           !.message = message.text,
                           !.isString = message.isString,
                           !.sessionId = sessionId,
                           !.invoked = <<"generateContent">>]
     ELSE \E block \in {GeminiCatchBlock(message.text, message.isString, sessionId)} :
            ai' = [ai EXCEPT !.pc = block.pc,
                             !.service = "GeminiAIService",
                             !.message = message.text,
                             !.isString = message.isString,
                             !.sessionId = sessionId,
                             !.failed = "uninitialized",
                             !.result = block.result]
  /\ UNCHANGED exceptAI

\* processMessage from the await of generateContent, which answered
GeminiGenerated ==
  /\ ai.pc = "generateContent"
  /\ ai' = [ai EXCEPT !.pc = "done",
                      !.result = [response |-> "answer of the model",
                                  sessionId |-> ai.sessionId, timestamp |-> "now",
                                  toolsUsed |-> <<"gemini-ai", "real-estate-analysis">>,
                                  propertyData |-> [null |-> TRUE],
                                  executionTime |-> "elapsed"]]
  /\ UNCHANGED exceptAI

\* processMessage from the await of generateContent, which threw
GeminiCaught ==
  /\ ai.pc = "generateContent"
  /\ \E block \in {GeminiCatchBlock(ai.message, ai.isString, ai.sessionId)} :
       ai' = [ai EXCEPT !.pc = block.pc, !.failed = "model", !.result = block.result]
  /\ UNCHANGED exceptAI

\* the caller takes the result or the rejection
GeminiSettled ==
  /\ ai.service = "GeminiAIService"
  /\ ai.pc \in {"done", "rejected"}
  /\ ai' = IdleService
  /\ UNCHANGED exceptAI

\* one call at a time of either service
NextServices ==
  \/ NextAI
  \/ \E message \in GeminiMessages, sessionId \in SessionIds \cup {NullSession},
        isInitialized \in BOOLEAN :
       GeminiProcessMessageCall(message, sessionId, isInitialized)
  \/ GeminiGenerated
  \/ GeminiCaught
  \/ GeminiSettled

SpecServices == Init /\ [][NextServices]_vars

\* the fields of the object processMessage returns
ResponseFields ==
  {"response", "sessionId", "timestamp", "toolsUsed", "propertyData", "executionTime"}

(***************************************************************************)
(* C22.  processMessage never fails for a string message: in both          *)
(* GeminiAIService and AIService any failure, of the model being           *)
(* uninitialized, of a tool, or of the model call, yields a normally       *)
(* returned response object that echoes the caller's sessionId, has        *)
(* propertyData null, and has toolsUsed <<"smart-fallback">>               *)
(* (GeminiAIService) or <<"gemini-ai">> (AIService).                       *)
(***************************************************************************)
C22_FailuresAnswered ==
  (ai.isString /\ ai.pc # "idle") =>
    /\ ai.pc # "rejected"
    /\ ai.pc = "done" => DOMAIN ai.result = ResponseFields
    /\ ai.failed # "none" =>
         /\ ai.pc = "done"
         /\ ai.result.sessionId = ai.sessionId
         /\ ai.result.propertyData = [null |-> TRUE]
         /\ ai.result.toolsUsed = IF ai.service = "GeminiAIService"
                                  THEN <<"smart-fallback">>
                                  ELSE <<"gemini-ai">>

\* AIService has answered a call whose tool failed after the tools were determined
C22_Witness ==
  /\ ai.service = "AIService"
  /\ ai.failed = "tool"
  /\ ai.sessionId = "session2"
  /\ Len(ai.toolsToUse) > 1
  /\ ai.pc = "done"

\* AIService has answered a call whose model call failed
C22_ModelWitness ==
  /\ ai.service = "AIService"
  /\ ai.failed = "model"
  /\ ai.sessionId = "session1"
  /\ ai.pc = "done"

\* GeminiAIService has answered a call it got without being initialized
C22_UninitializedWitness ==
  /\ ai.service = "GeminiAIService"
  /\ ai.failed = "uninitialized"
  /\ ai.isString
  /\ ai.sessionId = "session2"
  /\ ai.result.response = "Mortgage & Loan Information"

\* GeminiAIService has answered a call whose model call failed
C22_GeminiModelWitness ==
  /\ ai.service = "GeminiAIService"
  /\ ai.failed = "model"
  /\ ai.isString
  /\ ai.sessionId = "session1"
  /\ ai.pc = "done"

\* the catch block of GeminiAIService has thrown for a message that is not a string
C22_RejectedWitness ==
  /\ ai.service = "GeminiAIService"
  /\ ~ai.isString
  /\ ai.pc = "rejected"

(***************************************************************************)
(* MCPToolManager.executeTool(toolName, params).  this.tools is an object  *)
(* literal: reading this.tools[toolName] finds the ten tools registered by *)
(* the constructor and, through the prototype chain, the properties every  *)
(* object inherits from Object.prototype.                                  *)
(***************************************************************************)
\* the keys of this.tools
RegisteredTools ==
  {"validatePromptRelevance", "searchPropertyInfo", "getUserChatHistory",
   "getPropertyDetails", "getInterestRates", "calculateMortgage",
   "getUserSavedProperties", "getServicedProperties", "calculateMortgageAdvanced",
   "getFinancialCalculator"}

\* the functions this.tools inherits from Object.prototype that take part here
InheritedFunctions == {"toString", "constructor", "hasOwnProperty", "valueOf"}

\* the names executeTool is called with: the registered ones, names this.tools does
\* not have, and names this.tools inherits
ToolNames ==
  RegisteredTools \cup {"unknownTool", "calculatemortgage"} \cup InheritedFunctions
  \cup {"__proto__"}

\* the second argument: an object with or without a userId, null, or nothing, for
\* which the default {} is taken
ToolParams == {"{userId}", "{}", "null", "undefined"}

\* this.tools[toolName]: a bound tool, an inherited function, the inherited object
\* __proto__, or undefined
Tools(toolName) ==
  IF toolName \in RegisteredTools THEN "tool"
  ELSE IF toolName \in InheritedFunctions THEN "inherited function"
  ELSE IF toolName = "__proto__" THEN "Object.prototype"
  ELSE "undefined"

\* new MCPToolResponse(toolName, result, executionTime)
MCPToolResponse(toolName, result) ==
  [toolName |-> toolName, result |-> result, executionTime |-> "elapsed",
   timestamp |-> "now"]

\* the result for a name that is not found
NotFound(toolName) == [error |-> <<"Tool '", toolName, "' not found">>]

\* how the promise of this.tools[toolName](params) may settle: every tool destructures
\* its argument, which throws for null; otherwise the tool returns a result or an
\* object with an error, or throws; toString returns a string, constructor the
\* argument as an object, hasOwnProperty false, and valueOf this.tools
ToolSettlements(toolName, params) ==
  IF Tools(toolName) = "inherited function"
  THEN {[status |-> "fulfilled",
         value |-> IF toolName = "toString" THEN [string |-> "[object Object]"]
                   ELSE IF toolName = "constructor"
                   THEN [object |-> IF params = "null" THEN "{}" ELSE params]
                   ELSE IF toolName = "hasOwnProperty" THEN [boolean |-> FALSE]
                   ELSE [object |-> "this.tools"]]}
  ELSE IF params = "null"
  THEN {[status |-> "rejected", value |-> [message |-> <<"Cannot destructure">>]]}
  ELSE {[status |-> "fulfilled", value |-> [data |-> "result"]],
        [status |-> "fulfilled", value |-> [error |-> <<"reported by the tool">>]],
        [status |-> "rejected", value |-> [message |-> <<"thrown by the tool">>]]}

\* executeTool up to its await, or to its return when nothing is awaited
ExecuteTool(toolName, params) ==
  /\ exec.pc = "idle"
  /\ \E passed \in {IF params = "undefined" THEN "{}" ELSE params} :
       IF Tools(toolName) = "undefined"
       THEN exec' = [exec EXCEPT !.pc = "done",
                                 !.toolName = toolName,
                                 !.params = passed,
                                 !.response = MCPToolResponse(toolName, NotFound(toolName))]
       ELSE IF Tools(toolName) = "Object.prototype"
       THEN exec' = [exec EXCEPT !.pc = "done",
                                 !.toolName = toolName,
                                 !.params = passed,
                                 !.response =
                                   MCPToolResponse(toolName,
                                     [error |-> <<"this.tools[toolName] is not a function">>])]
       ELSE exec' = [exec EXCEPT !.pc = "await",
                                 !.toolName = toolName,
                                 !.params = passed,
                                 !.invoked = <<Tools(toolName)>>]
  /\ UNCHANGED exceptExec

\* executeTool from its await: the result is logged with params.userId and returned,
\* or the catch block returns the message of what was thrown
ExecuteToolResume ==
  /\ exec.pc = "await"
  /\ \E settled \in ToolSettlements(exec.toolName, exec.params) :
       exec' = [exec EXCEPT
                  !.pc = "done",
                  !.settled = settled,
                  !.response =
                    IF settled.status = "rejected"
                    THEN MCPToolResponse(exec.toolName, [error |-> settled.value.message])
                    ELSE IF exec.params = "null"
                    THEN MCPToolResponse(exec.toolName,
                                         [error |-> <<"Cannot read properties of null">>])
                    ELSE MCPToolResponse(exec.toolName, settled.value)]
  /\ UNCHANGED exceptExec

\* the caller takes the response
ExecuteToolReturned ==
  /\ exec.pc = "done"
  /\ exec' = IdleExecution
  /\ UNCHANGED exceptExec

NextExec ==
  \/ \E toolName \in ToolNames, params \in ToolParams : ExecuteTool(toolName, params)
  \/ ExecuteToolResume
  \/ ExecuteToolReturned

SpecExec == Init /\ [][NextExec]_vars

(***************************************************************************)
(* C23.  executeTool(toolName, params) never throws: for a name not in the *)
(* registry it returns an MCPToolResponse whose result is                  *)
(* {error: "Tool '<name>' not found"} without invoking anything, and for a *)
(* registered tool that throws it returns an MCPToolResponse whose result  *)
(* is {error: <the error message>}; in every case the returned toolName    *)
(* equals the requested name.  The code does not ensure the part about the *)
(* names that are not in the registry.                                     *)
(***************************************************************************)
C23_UnregisteredNotFound ==
  exec.pc = "done" =>
    /\ exec.response.toolName = exec.toolName
    /\ exec.toolName \notin RegisteredTools =>
         /\ exec.response.result = NotFound(exec.toolName)
         /\ exec.invoked = <<>>
    /\ (exec.toolName \in RegisteredTools /\ exec.settled.status = "rejected") =>
         exec.response.result = [error |-> exec.settled.value.message]

\* what does hold: executeTool always returns a response that names the requested tool,
\* a registered tool that throws gives its message, and a name this.tools neither has
\* nor inherits gives the result that it is not found
C23_AlwaysReturns ==
  /\ exec.pc \in {"idle", "await", "done"}
  /\ exec.pc = "done" =>
       /\ exec.response.toolName = exec.toolName
       /\ DOMAIN exec.response = {"toolName", "result", "executionTime", "timestamp"}
       /\ Tools(exec.toolName) = "undefined" =>
            /\ exec.response.result = NotFound(exec.toolName)
            /\ exec.invoked = <<>>
       /\ (exec.toolName \in RegisteredTools /\ exec.settled.status = "rejected") =>
            exec.response.result = [error |-> exec.settled.value.message]

(***************************************************************************)
(* The chat_messages table of DatabaseManager: saveChatMessage puts an     *)
(* item under its messageId, getChatHistory queries the index on           *)
(* sessionId and timestamp.  Timestamps are ISO strings, which compare as  *)
(* the instants they denote; they are modelled by small integers.          *)
(***************************************************************************)
\* the number of message ids and of instants
MaxStored == 3

MessageIds == 1..MaxStored

Timestamps == 1..MaxStored

\* the limit argument: 0, which the store refuses, small limits, and the default
Limits == {0, 1, 2, 50}

\* the sequences that list every element of the set once
RECURSIVE Orderings(_)
Orderings(items) ==
  IF items = {} THEN {<<>>}
  ELSE UNION {{<<item>> \o rest : rest \in Orderings(items \ {item})} : item \in items}

\* the items in ascending order of timestamp
AscendingByTimestamp(items) ==
  {ordered \in Orderings(items) :
     \A i \in 1..Len(ordered), j \in 1..Len(ordered) :
       i < j => ordered[i].timestamp <= ordered[j].timestamp}

\* ScanIndexForward: false: the items in descending order of timestamp, items of equal
\* timestamp in any order
DescendingByTimestamp(items) ==
  {ordered \in Orderings(items) :
     \A i \in 1..Len(ordered), j \in 1..Len(ordered) :
       i < j => ordered[i].timestamp >= ordered[j].timestamp}

\* the first count elements
Take(ordered, count) ==
  SubSeq(ordered, 1, IF count < Len(ordered) THEN count ELSE Len(ordered))

\* messages.reverse()
Reverse(ordered) == [i \in 1..Len(ordered) |-> ordered[Len(ordered) + 1 - i]]

\* the ways dynamodb.query(params).promise() may settle: a Limit below 1 is refused,
\* the request may fail, and otherwise the first Limit items of the session in
\* descending order are returned
QueryChatMessages(stored, sessionId, limit) ==
  {[status |-> "rejected", value |-> [message |-> "the request failed"]]}
  \cup
  (IF limit < 1
   THEN {[status |-> "rejected", value |-> [message |-> "ValidationException"]]}
   ELSE {[status |-> "fulfilled", value |-> [Items |-> Take(ordered, limit)]] :
           ordered \in DescendingByTimestamp({item \in stored : item.sessionId = sessionId})})

\* new ChatMessage({...}) for an item
ChatMessageOf(item) ==
  [id |-> item.messageId, message |-> item.message, sessionId |-> item.sessionId,
   userId |-> item.userId, timestamp |-> item.timestamp, messageType |-> item.messageType]

\* saveChatMessage(messageData): the put replaces the item of the same messageId
SaveChatMessage(id, sessionId, timestamp) ==
  /\ db.op.pc \in {"idle", "query"}
  /\ db' = [db EXCEPT !.messages =
              {item \in db.messages : item.messageId # id}
              \cup {[messageId |-> id, sessionId |-> sessionId, userId |-> "user",
                     message |-> "text", messageType |-> "user",
                     timestamp |-> timestamp]}]
  /\ UNCHANGED exceptDb

\* getChatHistory(sessionId, limit) up to its await
GetChatHistory(sessionId, limit) ==
  /\ db.op.pc = "idle"
  /\ db' = [db EXCEPT !.op = [pc |-> "query", name |-> "getChatHistory",
                              args |-> [sessionId |-> sessionId, limit |-> limit],
                              read |-> {}, result |-> NoValue]]
  /\ UNCHANGED exceptDb

\* getChatHistory from its await: the items mapped and reversed, or [] from the catch
GetChatHistoryResume ==
  /\ db.op.pc = "query"
  /\ db.op.name = "getChatHistory"
  /\ \E settled \in QueryChatMessages(db.messages, db.op.args.sessionId, db.op.args.limit) :
       db' = [db EXCEPT
                !.op.pc = "done",
                !.op.read = db.messages,
                !.op.result =
                  [failed |-> settled.status = "rejected",
                   messages |->
                     IF settled.status = "rejected" THEN <<>>
                     ELSE Reverse([i \in 1..Len(settled.value.Items) |->
                                     ChatMessageOf(settled.value.Items[i])])]]
  /\ UNCHANGED exceptDb

\* the caller takes the result
DatabaseReturned ==
  /\ db.op.pc = "done"
  /\ db' = [db EXCEPT !.op = IdleOperation]
  /\ UNCHANGED exceptDb

NextHistory ==
  \/ \E id \in MessageIds, sessionId \in SessionIds, timestamp \in Timestamps :
       SaveChatMessage(id, sessionId, timestamp)
  \/ \E sessionId \in SessionIds, limit \in Limits : GetChatHistory(sessionId, limit)
  \/ GetChatHistoryResume
  \/ DatabaseReturned

SpecHistory == Init /\ [][NextHistory]_vars

\* the messages of the session in the table when the query read it
SessionMessages ==
  {ChatMessageOf(item) : item \in {stored \in db.op.read :
                                     stored.sessionId = db.op.args.sessionId}}

\* the messages the call returned
Returned == {db.op.result.messages[i] : i \in 1..Len(db.op.result.messages)}

(***************************************************************************)
(* C24.  getChatHistory(sessionId, limit) returns at most limit messages,  *)
(* all of the given session, namely the limit most recent ones by          *)
(* timestamp, ordered oldest first (non-decreasing timestamp); when the    *)
(* store query fails it returns an empty list instead of failing.          *)
(***************************************************************************)
C24_MostRecentOldestFirst ==
  (db.op.pc = "done" /\ db.op.name = "getChatHistory") =>
    /\ Len(db.op.result.messages) <= db.op.args.limit
    /\ Returned \subseteq SessionMessages
    /\ db.op.result.failed => db.op.result.messages = <<>>
    /\ ~db.op.result.failed =>
         /\ Cardinality(Returned) = Len(db.op.result.messages)
         /\ Len(db.op.result.messages) =
              IF Cardinality(SessionMessages) < db.op.args.limit
              THEN Cardinality(SessionMessages) ELSE db.op.args.limit
         /\ \A kept \in Returned, left \in SessionMessages \ Returned :
              left.timestamp <= kept.timestamp
    /\ \A i \in 1..Len(db.op.result.messages), j \in 1..Len(db.op.result.messages) :
         i < j => db.op.result.messages[i].timestamp <= db.op.result.messages[j].timestamp

\* the call returned two of the three messages of the session, which are of three
\* different instants
C24_Witness ==
  /\ db.op.pc = "done"
  /\ db.op.name = "getChatHistory"
  /\ db.op.args.limit = 2
  /\ Len(db.op.result.messages) = 2
  /\ Cardinality(SessionMessages) = 3
  /\ Cardinality({message.timestamp : message \in SessionMessages}) = 3

\* the query failed and the call returned the empty list although the session has messages
C24_FailureWitness ==
  /\ db.op.pc = "done"
  /\ db.op.name = "getChatHistory"
  /\ db.op.result.failed
  /\ db.op.args.limit > 0
  /\ SessionMessages # {}

(***************************************************************************)
(* The user_sessions table of DatabaseManager.  Sessions are numbered;     *)
(* instants are counted in days.  createUserSession puts a session,        *)
(* updateSessionActivity sets the lastActivity of the item of that key to  *)
(* the present, creating the item when there is none, and                  *)
(* cleanupOldSessions scans for the sessions whose lastActivity is before  *)
(* the cutoff and deletes them by key in batches.                          *)
(***************************************************************************)
\* the number of requests in a batch: i += 25, slice(i, i + 25)
BatchSize == 25

\* the present, new Date(), in days
Today == 40

\* the number of calls that create sessions
MaxCreates == 3

\* the values of lastActivity that sessions are created with
Activities == {5, 10, 30, 40}

\* the daysOld argument, 30 when it is left out
DaysOld == {10, 30}

\* the numbers of sessions created in a row
CreateCounts == {1, BatchSize}

\* the sessions whose activity is updated
UpdatedSessions == {1, BatchSize, BatchSize + 1}

\* FilterExpression 'lastActivity < :cutoff'
FilterBeforeCutoff(items, cutoff) == {item \in items : item.lastActivity < cutoff}

\* the items in the order of their keys
RECURSIVE InKeyOrder(_)
InKeyOrder(items) ==
  IF items = {} THEN <<>>
  ELSE LET least == CHOOSE item \in items : \A other \in items :
                      item.sessionId <= other.sessionId
       IN <<least>> \o InKeyOrder(items \ {least})

\* how dynamodb.scan(params).promise() may settle
ScanSessions(stored, cutoff) ==
  {[status |-> "rejected", value |-> [message |-> "the request failed"]],
   [status |-> "fulfilled",
    value |-> [Items |-> InKeyOrder(FilterBeforeCutoff(stored, cutoff))]]}

\* deleteRequests.slice(i, i + 25)
Slice(requests, i) ==
  SubSeq(requests, i + 1,
         IF i + BatchSize < Len(requests) THEN i + BatchSize ELSE Len(requests))

\* createUserSession(sessionData) for count new sessions, one after the other
CreateUserSessions(count, lastActivity) ==
  /\ db.op.pc = "idle"
  /\ db.op.result = NoValue
  /\ Cardinality({item.created : item \in db.sessions}) < MaxCreates
  /\ \E existing \in {Cardinality(db.sessions)} :
       db' = [db EXCEPT !.sessions =
                db.sessions \cup
                {[sessionId |-> existing + k, lastActivity |-> lastActivity,
                  created |-> <<existing, count>>] : k \in 1..count}]
  /\ UNCHANGED exceptDb

\* updateSessionActivity(sessionId): the update creates the item when there is none
UpdateSessionActivity(sessionId) ==
  /\ db.op.pc \in {"scan", "batch"}
  /\ db' = [db EXCEPT !.sessions =
              {item \in db.sessions : item.sessionId # sessionId}
              \cup {[sessionId |-> sessionId, lastActivity |-> Today,
                     created |-> <<0, 0>>]}]
  /\ UNCHANGED exceptDb

\* cleanupOldSessions(daysOld) up to the await of the scan
CleanupOldSessions(daysOld) ==
  /\ db.op.pc = "idle"
  /\ db.sessions # {}
  /\ db' = [db EXCEPT !.op = [pc |-> "scan", name |-> "cleanupOldSessions",
                              args |-> [cutoff |-> Today - daysOld],
                              read |-> {},
                              result |-> NoValue]]
  /\ UNCHANGED exceptDb

\* cleanupOldSessions from the await of the scan: it returns 0 from the catch, the
\* number of items when there is none, or issues the first batch
CleanupScanned ==
  /\ db.op.pc = "scan"
  /\ \E settled \in ScanSessions(db.sessions, db.op.args.cutoff) :
       IF settled.status = "rejected"
       THEN db' = [db EXCEPT !.op.pc = "done",
                             !.op.result = [count |-> 0, items |-> <<>>, i |-> 0,
                                            batches |-> <<>>, deleted |-> {}]]
       ELSE IF Len(settled.value.Items) = 0
       THEN db' = [db EXCEPT !.op.pc = "done",
                             !.op.read = db.sessions,
                             !.op.result = [count |-> 0, items |-> <<>>, i |-> 0,
                                            batches |-> <<>>, deleted |-> {}]]
       ELSE db' = [db EXCEPT
                     !.op.pc = "batch",
                     !.op.read = db.sessions,
                     !.op.result =
                       [count |-> 0,
                        items |-> [k \in 1..Len(settled.value.Items) |->
                                     settled.value.Items[k].sessionId],
                        i |-> 0,
                        batches |-> <<>>,
                        deleted |-> {}]]
  /\ UNCHANGED exceptDb

\* cleanupOldSessions from the await of a batchWrite that succeeded: the items of the
\* batch are gone, and the loop goes on or the method returns the number of items
CleanupBatchWritten ==
  /\ db.op.pc = "batch"
  /\ \E batch \in {Slice(db.op.result.items, db.op.result.i)} :
     \E gone \in {{item \in db.sessions :
                     \E k \in 1..Len(batch) : batch[k] = item.sessionId}} :
       db' = [db EXCEPT
                !.sessions = db.sessions \ gone,
                !.op.pc = IF db.op.result.i + BatchSize < Len(db.op.result.items)
                          THEN "batch" ELSE "done",
                !.op.result =
                  [count |-> IF db.op.result.i + BatchSize < Len(db.op.result.items)
                             THEN 0 ELSE Len(db.op.result.items),
                   items |-> db.op.result.items,
                   i |-> db.op.result.i + BatchSize,
                   batches |-> Append(db.op.result.batches, batch),
                   deleted |-> db.op.result.deleted \cup gone]]
  /\ UNCHANGED exceptDb

\* cleanupOldSessions from the await of a batchWrite that failed: the catch returns 0
CleanupBatchFailed ==
  /\ db.op.pc = "batch"
  /\ db' = [db EXCEPT
              !.op.pc = "done",
              !.op.result.count = 0,
              !.op.result.batches =
                Append(db.op.result.batches, Slice(db.op.result.items, db.op.result.i))]
  /\ UNCHANGED exceptDb

\* the caller takes the count; the model stops there
CleanupReturned ==
  /\ db.op.pc = "done"
  /\ db.op.name = "cleanupOldSessions"
  /\ db' = [db EXCEPT !.op.pc = "idle"]
  /\ UNCHANGED exceptDb

NextCleanup ==
  \/ \E count \in CreateCounts, lastActivity \in Activities :
       CreateUserSessions(count, lastActivity)
  \/ \E sessionId \in UpdatedSessions : UpdateSessionActivity(sessionId)
  \/ \E daysOld \in DaysOld : CleanupOldSessions(daysOld)
  \/ CleanupScanned
  \/ CleanupBatchWritten
  \/ CleanupBatchFailed
  \/ CleanupReturned

SpecCleanup == Init /\ [][NextCleanup]_vars

\* the keys of the sessions the scan read that were before the cutoff
ScannedOld ==
  {item.sessionId : item \in {stored \in db.op.read :
                                stored.lastActivity < db.op.args.cutoff}}

\* the keys of the delete requests issued, batch after batch
RECURSIVE Requested(_)
Requested(batches) ==
  IF Len(batches) = 0 THEN <<>> ELSE Head(batches) \o Requested(Tail(batches))

\* the delete requests are for exactly the scanned old sessions, each in one batch of
\* at most BatchSize requests, the count returned is their number, and no item that
\* was at or after the cutoff when its batch was written has been deleted
CleanedExactly ==
  /\ {Requested(db.op.result.batches)[k] :
        k \in 1..Len(Requested(db.op.result.batches))} = ScannedOld
  /\ Len(Requested(db.op.result.batches)) = Cardinality(ScannedOld)
  /\ \A b \in 1..Len(db.op.result.batches) :
       /\ Len(db.op.result.batches[b]) >= 1
       /\ Len(db.op.result.batches[b]) <= BatchSize
  /\ db.op.result.count = Cardinality(ScannedOld)
  /\ \A item \in db.op.result.deleted : item.lastActivity < db.op.args.cutoff

(***************************************************************************)
(* C25.  cleanupOldSessions(daysOld) issues delete requests for exactly    *)
(* the scanned sessions whose lastActivity is before now minus daysOld     *)
(* days, split into consecutive batches of at most 25 requests such that   *)
(* every such session appears in exactly one batch; the batching loop      *)
(* terminates and the returned count equals the number of such sessions,   *)
(* while sessions at or after the cutoff are never deleted.  The code does *)
(* not ensure this.                                                        *)
(***************************************************************************)
C25_OldSessionsDeletedInBatches ==
  (db.op.name = "cleanupOldSessions" /\ db.op.pc = "done") => CleanedExactly

\* no batchWrite of the call has failed
NoBatchFailed ==
  \/ db.op.result.count > 0
  \/ db.op.result.items = <<>>

\* what does hold: a call during which no batchWrite fails issues the requests and
\* returns the count as stated, and every item it deletes was scanned as old
C25_WhenEveryBatchIsWritten ==
  (db.op.name = "cleanupOldSessions" /\ db.op.pc = "done" /\ NoBatchFailed) =>
    /\ {Requested(db.op.result.batches)[k] :
          k \in 1..Len(Requested(db.op.result.batches))} = ScannedOld
    /\ Len(Requested(db.op.result.batches)) = Cardinality(ScannedOld)
    /\ \A b \in 1..Len(db.op.result.batches) :
         /\ Len(db.op.result.batches[b]) >= 1
         /\ Len(db.op.result.batches[b]) <= BatchSize
    /\ db.op.result.count = Cardinality(ScannedOld)
    /\ \A item \in db.op.result.deleted : item.sessionId \in ScannedOld

(***************************************************************************)
(* The property_details table of DatabaseManager and the getPropertyDetails *)
(* tool of MCPToolManager, which reads the table first and otherwise makes  *)
(* up a record and stores it.  DatabaseManager.getPropertyDetails returns   *)
(* null both when there is no item and when the request fails.              *)
(***************************************************************************)
PropertyIds == {"property1", "property2"}

\* the record the tool makes up for a propertyId
MockProperty(propertyId) ==
  [propertyId |-> propertyId, address |-> "123 Main St, Downtown", price |-> 450000]

\* the records callers store
PropertyRecords ==
  [propertyId : PropertyIds, address : {"1 First St", "2 Second St"}, price : {300000}]

\* the item of that key, as a set that is empty when there is none
ItemsOf(stored, propertyId) == {item \in stored : item.propertyId = propertyId}

\* dynamodb.put of {propertyId, data, updatedAt}: the item replaces the one of its key
PutProperty(stored, propertyData) ==
  (stored \ ItemsOf(stored, propertyData.propertyId))
  \cup {[propertyId |-> propertyData.propertyId, data |-> propertyData,
         updatedAt |-> "now"]}

\* what DatabaseManager.getPropertyDetails may return: result.Item.data, or null when
\* there is no item, and null from the catch when the request fails
DatabaseGet(stored, propertyId) ==
  {[failed |-> TRUE, value |-> [null |-> TRUE]]}
  \cup
  (IF ItemsOf(stored, propertyId) = {}
   THEN {[failed |-> FALSE, value |-> [null |-> TRUE]]}
   ELSE {[failed |-> FALSE, value |-> item.data] : item \in ItemsOf(stored, propertyId)})

\* DatabaseManager.storePropertyDetails(propertyData): true, or false from the catch
StorePropertyDetails(propertyData) ==
  /\ db.op.pc = "idle"
  /\ \E written \in BOOLEAN :
       db' = [db EXCEPT
                !.properties = IF written THEN PutProperty(db.properties, propertyData)
                               ELSE db.properties,
                !.op = [pc |-> "done", name |-> "storePropertyDetails",
                        args |-> [propertyData |-> propertyData],
                        read |-> {}, result |-> [value |-> written]]]
  /\ UNCHANGED exceptDb

\* DatabaseManager.getPropertyDetails(propertyId), called by itself
DatabaseGetPropertyDetails(propertyId) ==
  /\ db.op.pc = "idle"
  /\ \E got \in DatabaseGet(db.properties, propertyId) :
       db' = [db EXCEPT
                !.op = [pc |-> "done", name |-> "getPropertyDetails",
                        args |-> [propertyId |-> propertyId],
                        read |-> ItemsOf(db.properties, propertyId),
                        result |-> [value |-> got.value, failed |-> got.failed]]]
  /\ UNCHANGED exceptDb

\* the tool getPropertyDetails({propertyId}) up to its first await
GetPropertyDetails(propertyId) ==
  /\ db.op.pc = "idle"
  /\ db' = [db EXCEPT !.op = [pc |-> "get", name |-> "tool getPropertyDetails",
                              args |-> [propertyId |-> propertyId],
                              read |-> {}, result |-> NoValue]]
  /\ UNCHANGED exceptDb

\* the tool from the await of dbManager.getPropertyDetails: it returns what it got, or
\* makes up the record and calls storePropertyDetails
GetPropertyDetailsRead ==
  /\ db.op.pc = "get"
  /\ \E got \in DatabaseGet(db.properties, db.op.args.propertyId) :
       db' = [db EXCEPT
                !.op.pc = IF got.value = [null |-> TRUE] THEN "store" ELSE "done",
                !.op.read = ItemsOf(db.properties, db.op.args.propertyId),
                !.op.result =
                  [value |-> IF got.value = [null |-> TRUE]
                             THEN MockProperty(db.op.args.propertyId)
                             ELSE got.value,
                   failed |-> got.failed,
                   written |-> "nothing"]]
  /\ UNCHANGED exceptDb

\* the tool from the await of storePropertyDetails, which wrote the record or not
GetPropertyDetailsStored ==
  /\ db.op.pc = "store"
  /\ \E written \in BOOLEAN :
       db' = [db EXCEPT
                !.properties = IF written
                               THEN PutProperty(db.properties, db.op.result.value)
                               ELSE db.properties,
                !.op.pc = "done",
                !.op.result.written = IF written THEN "written" ELSE "not written"]
  /\ UNCHANGED exceptDb

NextProperties ==
  \/ \E propertyData \in PropertyRecords : StorePropertyDetails(propertyData)
  \/ \E propertyId \in PropertyIds : DatabaseGetPropertyDetails(propertyId)
  \/ \E propertyId \in PropertyIds : GetPropertyDetails(propertyId)
  \/ GetPropertyDetailsRead
  \/ GetPropertyDetailsStored
  \/ DatabaseReturned

SpecProperties == Init /\ [][NextProperties]_vars

\* the tool returned the stored record when there was one, and otherwise the made-up
\* record, which is the data of the item of that key when the write succeeded
ReadThrough ==
  /\ \A item \in db.op.read : db.op.result.value = item.data
  /\ db.op.read = {} =>
       /\ db.op.result.value = MockProperty(db.op.args.propertyId)
       /\ db.op.result.written = "written" =>
            \E item \in db.properties :
              /\ item.propertyId = db.op.args.propertyId
              /\ item.data = db.op.result.value

\* storePropertyDetails reported the write and the item of the key holds the data, and
\* DatabaseManager.getPropertyDetails returned the data of the item as it is stored
StoredUnchanged ==
  /\ (db.op.name = "storePropertyDetails" /\ db.op.result.value) =>
       ItemsOf(db.properties, db.op.args.propertyData.propertyId)
         = {[propertyId |-> db.op.args.propertyData.propertyId,
             data |-> db.op.args.propertyData, updatedAt |-> "now"]}
  /\ (db.op.name = "getPropertyDetails" /\ ~db.op.result.failed) =>
       \A item \in db.op.read : db.op.result.value = item.data

(***************************************************************************)
(* C26.  The property-details tool is a read-through cache over the store: *)
(* getPropertyDetails(propertyId) returns the stored record when one       *)
(* exists, otherwise returns the mock record for that propertyId and       *)
(* stores it, so that (when the store write succeeds) a later              *)
(* getPropertyDetails for the same propertyId returns that same record     *)
(* from the store; storePropertyDetails followed by                        *)
(* DatabaseManager.getPropertyDetails returns the stored data unchanged.   *)
(* The code does not ensure the first part.                                *)
(***************************************************************************)
C26_ReadThroughCache ==
  db.op.pc = "done" =>
    /\ db.op.name = "tool getPropertyDetails" => ReadThrough
    /\ StoredUnchanged

\* what does hold: the statement for the calls whose read of the store did not fail
C26_WhenTheReadSucceeds ==
  db.op.pc = "done" =>
    /\ (db.op.name = "tool getPropertyDetails" /\ ~db.op.result.failed) => ReadThrough
    /\ StoredUnchanged

\* the tool made up a record and wrote it over the record that was stored
C26_OverwrittenWitness ==
  /\ db.op.pc = "done"
  /\ db.op.name = "tool getPropertyDetails"
  /\ db.op.result.failed
  /\ db.op.result.written = "written"
  /\ \E item \in db.op.read : item.data \in PropertyRecords

(***************************************************************************)
(* validatePromptRelevance({prompt}) of MCPToolManager.  It counts the     *)
(* property keywords the prompt contains and the pieces the prompt splits  *)
(* into at its spaces, and accepts the prompt when the count is positive   *)
(* and the relevance score, the count divided by a tenth of the number of  *)
(* pieces and by 1 at least, is above 0.2.  The count of nonPropertyTopics *)
(* is computed and not used.                                               *)
(***************************************************************************)
propertyKeywords ==
  <<
   <<"p", "r", "o", "p", "e", "r", "t", "y">>,
   <<"h", "o", "u", "s", "e">>,
   <<"h", "o", "m", "e">>,
   <<"a", "p", "a", "r", "t", "m", "e", "n", "t">>,
   <<"c", "o", "n", "d", "o">>,
   <<"r", "e", "a", "l", " ", "e", "s", "t", "a", "t", "e">>,
   <<"b", "u", "y">>,
   <<"s", "e", "l", "l">>,
   <<"r", "e", "n", "t">>,
   <<"m", "o", "r", "t", "g", "a", "g", "e">>,
   <<"l", "o", "a", "n">>,
   <<"i", "n", "v", "e", "s", "t", "m", "e", "n", "t">>,
   <<"r", "o", "i">>,
   <<"b", "e", "d", "r", "o", "o", "m">>,
   <<"b", "a", "t", "h", "r", "o", "o", "m">>,
   <<"s", "q", "u", "a", "r", "e", " ", "f", "e", "e", "t">>,
   <<"p", "r", "i", "c", "e">>,
   <<"l", "o", "c", "a", "t", "i", "o", "n">>,
   <<"n", "e", "i", "g", "h", "b", "o", "r", "h", "o", "o", "d">>,
   <<"m", "a", "r", "k", "e", "t">>,
   <<"l", "i", "s", "t", "i", "n", "g">>,
   <<"a", "g", "e", "n", "t">>,
   <<"b", "r", "o", "k", "e", "r">>
  >>

\* what prompts begin with
PromptBases ==
  {
   <<"h", "o", "u", "s", "e">>,
   <<"B", "u", "y", " ", "a", " ", "h", "o", "m", "e">>,
   <<"m", "y", " ", "L", "o", "a", "n">>,
   <<"w", "e", "a", "t", "h", "e", "r">>,
   <<"h", "e", "l", "l", "o">>
  }

\* the number of words that may follow the beginning of a prompt
MaxFiller == 50

\* the prompt followed by that many words
RECURSIVE Filled(_, _)
Filled(base, count) ==
  IF count = 0 THEN base ELSE Filled(base, count - 1) \o <<" ", "s", "o">>

Prompts == {Filled(base, count) : base \in PromptBases, count \in 0..MaxFiller}

\* propertyKeywords.filter(keyword => promptLower.includes(keyword)).length
propertyScore(promptLower) ==
  Cardinality({k \in 1..Len(propertyKeywords) : Includes(promptLower, propertyKeywords[k])})

\* prompt.split(' ').length
totalWords(prompt) == 1 + Cardinality({i \in 1..Len(prompt) : prompt[i] = " "})

\* relevanceScore > 0.2, where relevanceScore is
\* Math.min(1.0, propertyScore / Math.max(totalWords * 0.1, 1))
AboveThreshold(score, words) ==
  IF words <= 10 THEN 5 * score > 1 ELSE 50 * score > words

\* Math.round(relevanceScore * 100), the relevance score returned in hundredths
relevanceScore(score, words) ==
  IF words <= 10
  THEN (IF score >= 1 THEN 100 ELSE 0)
  ELSE IF 10 * score >= words THEN 100
  ELSE RoundHalfUpInt(1000 * score, words)

RedirectContent ==
  "I'm here to help with property investment and real estate questions. How can I assist you with property details, market analysis, or investment calculations?"

\* the object validatePromptRelevance returns
MCPValidatePromptRelevance(prompt) ==
  LET score == propertyScore(toLowerCase(prompt))
      words == totalWords(prompt)
      isValid == score > 0 /\ AboveThreshold(score, words)
  IN [isValid |-> isValid,
      relevanceScore |-> relevanceScore(score, words),
      filteredContent |-> IF isValid THEN "null" ELSE RedirectContent,
      reason |-> IF isValid THEN "Query is property-related and valid"
                 ELSE "Query not related to real estate or property investment"]

\* the caller calls validatePromptRelevance and the promise settles
ValidatePromptRelevanceCall ==
  \E prompt \in Prompts :
    /\ pc = "idle"
    /\ call' = [tool |-> "validatePromptRelevance", params |-> [prompt |-> prompt]]
    /\ outcome' = [status |-> "fulfilled", value |-> MCPValidatePromptRelevance(prompt)]
    /\ pc' = "done"
    /\ UNCHANGED <<pending, caught, earlier>>
    /\ UNCHANGED exceptTools

NextRelevance ==
  \/ ValidatePromptRelevanceCall
  \/ Consume

SpecRelevance == Init /\ [][NextRelevance]_vars

\* the prompt of the call contains a property keyword, in whatever case
HasPropertyKeyword ==
  \E k \in 1..Len(propertyKeywords) :
    Includes(toLowerCase(call.params.prompt), propertyKeywords[k])

(***************************************************************************)
(* C27.  validatePromptRelevance (tools.js) accepts every property-related *)
(* prompt: any prompt that contains at least one of the property keywords  *)
(* is returned with isValid = true, filteredContent = null and reason      *)
(* 'Query is property-related and valid', regardless of the number of      *)
(* words in the prompt; only prompts with no property keyword get the      *)
(* redirect text.  The code does not ensure this.                          *)
(***************************************************************************)
C27_KeywordPromptsAccepted ==
  (pc = "done" /\ call.tool = "validatePromptRelevance") =>
    /\ HasPropertyKeyword =>
         /\ outcome.value.isValid
         /\ outcome.value.filteredContent = "null"
         /\ outcome.value.reason = "Query is property-related and valid"
    /\ ~HasPropertyKeyword =>
         /\ ~outcome.value.isValid
         /\ outcome.value.filteredContent = RedirectContent

\* what does hold: a prompt with a property keyword is accepted when it has fewer than
\* fifty words for each keyword it contains, and gets the redirect text otherwise
C27_AcceptedUpToFiftyWordsAKeyword ==
  (pc = "done" /\ call.tool = "validatePromptRelevance") =>
    /\ outcome.value.isValid <=>
         /\ HasPropertyKeyword
         /\ totalWords(call.params.prompt)
              < 50 * propertyScore(toLowerCase(call.params.prompt))
    /\ outcome.value.isValid <=> outcome.value.filteredContent = "null"
    /\ ~outcome.value.isValid <=> outcome.value.filteredContent = RedirectContent

(***************************************************************************)
(* getFinancialCalculator({calculationType, ...params}) of MCPToolManager  *)
(* and the four calculations it dispatches to.  An amount is a number, in  *)
(* whole units, or is missing; a result is a number in hundredths, NaN or  *)
(* an infinity, as JavaScript divides by zero and computes with undefined  *)
(* without throwing.                                                       *)
(***************************************************************************)
Missing == [type |-> "undefined"]

NaN == [type |-> "NaN"]

Infinite(sign) == [type |-> IF sign < 0 THEN "-Infinity" ELSE "Infinity"]

\* Math.round(x * 100) / 100 for x = (a / b) * factor, in hundredths
RoundedQuotient(a, b, factor) ==
  IF a = Missing \/ b = Missing THEN NaN
  ELSE IF b.v = 0 THEN (IF a.v = 0 THEN NaN ELSE Infinite(a.v))
  ELSE IF b.v > 0 THEN Num(RoundHalfUpInt(a.v * factor * 100, b.v))
  ELSE Num(RoundHalfUpInt(0 - a.v * factor * 100, 0 - b.v))

\* Math.round(x * 100) / 100 for x = a * b, in hundredths
RoundedProduct(a, b) ==
  IF a = Missing \/ b = Missing THEN NaN ELSE Num(a.v * b.v * 100)

\* a - b
Difference(a, b) ==
  IF a = Missing \/ b = Missing THEN Missing ELSE Num(a.v - b.v)

\* calculateROI({initialInvestment, annualReturn, years = 1})
calculateROI(params) ==
  [calculationType |-> "roi",
   initialInvestment |-> params.initialInvestment,
   annualReturn |-> params.annualReturn,
   years |-> IF params.years = Missing THEN Num(1) ELSE params.years,
   roiPercentage |-> RoundedQuotient(params.annualReturn, params.initialInvestment, 100),
   totalReturn |-> RoundedProduct(params.annualReturn,
                                  IF params.years = Missing THEN Num(1) ELSE params.years)]

\* calculateCashFlow({monthlyRent, monthlyExpenses})
calculateCashFlow(params) ==
  [calculationType |-> "cash_flow",
   monthlyRent |-> params.monthlyRent,
   monthlyExpenses |-> params.monthlyExpenses,
   monthlyCashFlow |-> RoundedProduct(Difference(params.monthlyRent,
                                                 params.monthlyExpenses), Num(1)),
   annualCashFlow |-> RoundedProduct(Difference(params.monthlyRent,
                                                params.monthlyExpenses), Num(12))]

\* calculateCapRate({annualIncome, propertyValue})
calculateCapRate(params) ==
  [calculationType |-> "cap_rate",
   annualIncome |-> params.annualIncome,
   propertyValue |-> params.propertyValue,
   capRatePercentage |-> RoundedQuotient(params.annualIncome, params.propertyValue, 100)]

\* calculateBreakEven without its test of the price
calculateBreakEvenUnguarded(params) ==
  [calculationType |-> "break_even",
   fixedCosts |-> params.fixedCosts,
   variableCostPerUnit |-> params.variableCostPerUnit,
   pricePerUnit |-> params.pricePerUnit,
   breakEvenUnits |-> RoundedQuotient(params.fixedCosts,
                                      Difference(params.pricePerUnit,
                                                 params.variableCostPerUnit), 1)]

\* calculateBreakEven({fixedCosts, variableCostPerUnit, pricePerUnit}): a comparison
\* with undefined is false
calculateBreakEven(params) ==
  IF /\ params.pricePerUnit # Missing
     /\ params.variableCostPerUnit # Missing
     /\ params.pricePerUnit.v <= params.variableCostPerUnit.v
  THEN [error |-> "Price per unit must be greater than variable cost per unit"]
  ELSE calculateBreakEvenUnguarded(params)

\* the object getFinancialCalculator returns
getFinancialCalculator(params) ==
  IF params.calculationType = "roi" THEN calculateROI(params)
  ELSE IF params.calculationType = "cash_flow" THEN calculateCashFlow(params)
  ELSE IF params.calculationType = "cap_rate" THEN calculateCapRate(params)
  ELSE IF params.calculationType = "break_even" THEN calculateBreakEven(params)
  ELSE [error |-> "Unknown calculation type"]

\* the arguments: for each calculation its amounts, present or missing, and a
\* calculationType that is none of the four
CalculatorParams ==
  [calculationType : {"roi"},
   initialInvestment : {Missing, Num(0), Num(100000), Num(250000)},
   annualReturn : {Missing, Num(0 - 500), Num(0), Num(8000)},
   years : {Missing, Num(2), Num(5)}]
  \cup
  [calculationType : {"cash_flow"},
   monthlyRent : {Missing, Num(0), Num(1500), Num(2000)},
   monthlyExpenses : {Missing, Num(0), Num(1200), Num(2000)}]
  \cup
  [calculationType : {"cap_rate"},
   annualIncome : {Missing, Num(0), Num(24000), Num(30000)},
   propertyValue : {Missing, Num(0), Num(400000), Num(500000)}]
  \cup
  [calculationType : {"break_even"},
   fixedCosts : {Missing, Num(0), Num(1000)},
   variableCostPerUnit : {Missing, Num(5), Num(8)},
   pricePerUnit : {Missing, Num(5), Num(10)}]
  \cup
  [calculationType : {"irr", "undefined"}]

\* the caller calls getFinancialCalculator and the promise settles
GetFinancialCalculatorCall ==
  \E params \in CalculatorParams :
    /\ pc = "idle"
    /\ call' = [tool |-> "getFinancialCalculator", params |-> params]
    /\ outcome' = [status |-> "fulfilled", value |-> getFinancialCalculator(params)]
    /\ pc' = "done"
    /\ UNCHANGED <<pending, caught, earlier>>
    /\ UNCHANGED exceptTools

NextCalculator ==
  \/ GetFinancialCalculatorCall
  \/ Consume

SpecCalculator == Init /\ [][NextCalculator]_vars

\* the outputs a calculation computes
ComputedOutputs ==
  {"roiPercentage", "totalReturn", "monthlyCashFlow", "annualCashFlow",
   "capRatePercentage", "breakEvenUnits"}

\* the result is an error object, or every output it computes is a finite number
ErrorOrFinite(value) ==
  \/ DOMAIN value = {"error"}
  \/ \A field \in DOMAIN value \cap ComputedOutputs : value[field].type = "number"

\* the arguments every amount of which is present
AllPresent(params) ==
  \A field \in DOMAIN params \ {"calculationType"} : params[field] # Missing

\* the division of the calculation would be by zero, or its type is none of the four
MustBeError(params) ==
  \/ params.calculationType \notin {"roi", "cash_flow", "cap_rate", "break_even"}
  \/ /\ AllPresent(params)
     /\ \/ params.calculationType = "roi" /\ params.initialInvestment.v = 0
        \/ params.calculationType = "cap_rate" /\ params.propertyValue.v = 0
        \/ /\ params.calculationType = "break_even"
           /\ params.pricePerUnit.v <= params.variableCostPerUnit.v

(***************************************************************************)
(* C28.  getFinancialCalculator never returns a non-finite number: for     *)
(* each calculationType (roi, cash_flow, cap_rate, break_even) with inputs *)
(* allowed by the financialCalculator schema it returns either an          *)
(* {error: ...} object or a result whose numeric outputs are all finite;   *)
(* inputs that would divide by zero (pricePerUnit <= variableCostPerUnit,  *)
(* initialInvestment = 0, propertyValue = 0) and an unknown                *)
(* calculationType yield an {error} result.  The code does not ensure      *)
(* this.                                                                   *)
(***************************************************************************)
C28_NeverNonFinite ==
  (pc = "done" /\ call.tool = "getFinancialCalculator") =>
    /\ ErrorOrFinite(outcome.value)
    /\ MustBeError(call.params) => DOMAIN outcome.value = {"error"}

\* what does hold: the outputs are finite when every amount is present and no divisor
\* is zero, and the price test of break_even and an unknown type give an error
C28_FiniteForPositiveDivisors ==
  (pc = "done" /\ call.tool = "getFinancialCalculator") =>
    /\ (/\ AllPresent(call.params)
        /\ call.params.calculationType = "roi" => call.params.initialInvestment.v # 0
        /\ call.params.calculationType = "cap_rate" => call.params.propertyValue.v # 0)
       => ErrorOrFinite(outcome.value)
    /\ (/\ MustBeError(call.params)
        /\ call.params.calculationType \notin {"roi", "cap_rate"})
       => DOMAIN outcome.value = {"error"}

(***************************************************************************)
(* C29.  In every result of calculateMortgageAdvanced the escrow amounts   *)
(* agree between the two places they are reported:                         *)
(* paymentBreakdown.estimatedTaxes = advancedDetails.monthlyPropertyTax    *)
(* and paymentBreakdown.estimatedInsurance =                               *)
(* advancedDetails.monthlyInsurance, and                                   *)
(* paymentBreakdown.principalAndInterest = monthlyPayment, for every       *)
(* choice of propertyTaxRate and insuranceRate.  The code does not ensure  *)
(* this: paymentBreakdown is computed with fixed rates.                    *)
(***************************************************************************)
C29_EscrowAmountsAgree ==
  (/\ pc = "done"
   /\ call.tool = "calculateMortgageAdvanced"
   /\ outcome.status = "fulfilled"
   /\ "advancedDetails" \in DOMAIN outcome.value) =>
    /\ outcome.value.paymentBreakdown.estimatedTaxes
         = outcome.value.advancedDetails.monthlyPropertyTax
    /\ outcome.value.paymentBreakdown.estimatedInsurance
         = outcome.value.advancedDetails.monthlyInsurance
    /\ outcome.value.paymentBreakdown.principalAndInterest = outcome.value.monthlyPayment

\* what does hold: principalAndInterest is monthlyPayment in every result, and the
\* escrow amounts agree when the caller leaves the two rates at their defaults
C29_AgreeAtDefaultRates ==
  (/\ pc = "done"
   /\ call.tool = "calculateMortgageAdvanced"
   /\ outcome.status = "fulfilled"
   /\ "advancedDetails" \in DOMAIN outcome.value) =>
    /\ outcome.value.paymentBreakdown.principalAndInterest = outcome.value.monthlyPayment
    /\ call.params.propertyTaxRate = 120 =>
         outcome.value.paymentBreakdown.estimatedTaxes
           = outcome.value.advancedDetails.monthlyPropertyTax
    /\ call.params.insuranceRate = 40 =>
         outcome.value.paymentBreakdown.estimatedInsurance
           = outcome.value.advancedDetails.monthlyInsurance

====
